---- MODULE Spec2Model ----
(***************************************************************************)
(* Model of helpers.go of gitstr: the credential resolver                  *)
(* gatherSecretKeyOrBunker, the prompt engine _ask / ask / askPassword /   *)
(* confirm, the decryption retry loop promptDecrypt and the git-config     *)
(* store they read and write.                                              *)
(*                                                                         *)
(* Go strings are sequences of one-character strings, so that ToLower,     *)
(* TrimSpace, HasPrefix, the 32-byte-hex check and the bech32 decoding of  *)
(* an nsec are computed, not assumed.  Errors are TLA+ strings ("nil" is   *)
(* the nil error).                                                         *)
(***************************************************************************)
EXTENDS Integers, Sequences, FiniteSets, TLC

VARIABLES
    store,      \* git config --local: [str.bunker, str.secretkey], persists across runs
    store0,     \* the store as it was when the current run started
    pc,         \* "idle" | "secret" | "confirm" | "done" | "password" | "pdone"
    opts,       \* flags of the current run: connect, sec, secSet (IsSet), storeSec
    sec,        \* local sec of gatherSecretKeyOrBunker
    askToStore, \* local askToStore of gatherSecretKeyOrBunker
    ret,        \* what gatherSecretKeyOrBunker returned: bunker, key, encrypted, err
    connects,   \* calls of nip46.ConnectBunker made by the run: address and result
    gitLog,     \* calls of git made by the run, in order
    asks,       \* iterations of _ask made by the run (or by promptDecrypt), in order
    blob,       \* argument ncryptsec1 of promptDecrypt
    attempt,    \* loop variable i of promptDecrypt
    decrypts,   \* calls of nip49.Decrypt made by promptDecrypt, in order
    pret,       \* what promptDecrypt returned: sec, err
    written,    \* the last write of the stored secret by an earlier run: value, key returned
    fin,        \* the slice given to filterSlice, as it was at the call
    fslice,     \* the elements of that slice's array, which filterSlice moves
    fkeep,      \* the values the keep given to filterSlice is true of
    fout        \* what filterSlice returned

vars == <<store, store0, pc, opts, sec, askToStore, ret, connects, gitLog, asks,
          blob, attempt, decrypts, pret, written, fin, fslice, fkeep, fout>>

-----------------------------------------------------------------------------
(* Strings *)

\* a secret key is 32 bytes, 64 hex characters
KeyBytes == 32

Rep(c, n) == [i \in 1..n |-> c]

\* A character is written as itself when it is one of U+0020..U+00FF or has an
\* escape (\t, \n, \f, \r), and as U+ followed by its code point otherwise.

\* unicode.CaseRanges (Unicode 15.0.0), spelled out: every character whose lower
\* case is another character, with that lower case
CaseRanges ==
    {<<"A", "a">>, <<"B", "b">>, <<"C", "c">>, <<"D", "d">>, <<"E", "e">>, <<"F", "f">>,
     <<"G", "g">>, <<"H", "h">>, <<"I", "i">>, <<"J", "j">>, <<"K", "k">>, <<"L", "l">>,
     <<"M", "m">>, <<"N", "n">>, <<"O", "o">>, <<"P", "p">>, <<"Q", "q">>, <<"R", "r">>,
     <<"S", "s">>, <<"T", "t">>, <<"U", "u">>, <<"V", "v">>, <<"W", "w">>, <<"X", "x">>,
     <<"Y", "y">>, <<"Z", "z">>, <<"À", "à">>, <<"Á", "á">>, <<"Â", "â">>, <<"Ã", "ã">>,
     <<"Ä", "ä">>, <<"Å", "å">>, <<"Æ", "æ">>, <<"Ç", "ç">>, <<"È", "è">>, <<"É", "é">>,
     <<"Ê", "ê">>, <<"Ë", "ë">>, <<"Ì", "ì">>, <<"Í", "í">>, <<"Î", "î">>, <<"Ï", "ï">>,
     <<"Ð", "ð">>, <<"Ñ", "ñ">>, <<"Ò", "ò">>, <<"Ó", "ó">>, <<"Ô", "ô">>, <<"Õ", "õ">>,
     <<"Ö", "ö">>, <<"Ø", "ø">>, <<"Ù", "ù">>, <<"Ú", "ú">>, <<"Û", "û">>, <<"Ü", "ü">>,
     <<"Ý", "ý">>, <<"Þ", "þ">>, <<"U+0100", "U+0101">>, <<"U+0102", "U+0103">>,
     <<"U+0104", "U+0105">>, <<"U+0106", "U+0107">>, <<"U+0108", "U+0109">>,
     <<"U+010A", "U+010B">>, <<"U+010C", "U+010D">>, <<"U+010E", "U+010F">>,
     <<"U+0110", "U+0111">>, <<"U+0112", "U+0113">>, <<"U+0114", "U+0115">>,
     <<"U+0116", "U+0117">>, <<"U+0118", "U+0119">>, <<"U+011A", "U+011B">>,
     <<"U+011C", "U+011D">>, <<"U+011E", "U+011F">>, <<"U+0120", "U+0121">>,
     <<"U+0122", "U+0123">>, <<"U+0124", "U+0125">>, <<"U+0126", "U+0127">>,
     <<"U+0128", "U+0129">>, <<"U+012A", "U+012B">>, <<"U+012C", "U+012D">>,
     <<"U+012E", "U+012F">>, <<"U+0130", "i">>, <<"U+0132", "U+0133">>, <<"U+0134", "U+0135">>,
     <<"U+0136", "U+0137">>, <<"U+0139", "U+013A">>, <<"U+013B", "U+013C">>,
     <<"U+013D", "U+013E">>, <<"U+013F", "U+0140">>, <<"U+0141", "U+0142">>,
     <<"U+0143", "U+0144">>, <<"U+0145", "U+0146">>, <<"U+0147", "U+0148">>,
     <<"U+014A", "U+014B">>, <<"U+014C", "U+014D">>, <<"U+014E", "U+014F">>,
     <<"U+0150", "U+0151">>, <<"U+0152", "U+0153">>, <<"U+0154", "U+0155">>,
     <<"U+0156", "U+0157">>, <<"U+0158", "U+0159">>, <<"U+015A", "U+015B">>,
     <<"U+015C", "U+015D">>, <<"U+015E", "U+015F">>, <<"U+0160", "U+0161">>,
     <<"U+0162", "U+0163">>, <<"U+0164", "U+0165">>, <<"U+0166", "U+0167">>,
     <<"U+0168", "U+0169">>, <<"U+016A", "U+016B">>, <<"U+016C", "U+016D">>,
     <<"U+016E", "U+016F">>, <<"U+0170", "U+0171">>, <<"U+0172", "U+0173">>,
     <<"U+0174", "U+0175">>, <<"U+0176", "U+0177">>, <<"U+0178", "ÿ">>, <<"U+0179", "U+017A">>,
     <<"U+017B", "U+017C">>, <<"U+017D", "U+017E">>, <<"U+0181", "U+0253">>,
     <<"U+0182", "U+0183">>, <<"U+0184", "U+0185">>, <<"U+0186", "U+0254">>,
     <<"U+0187", "U+0188">>, <<"U+0189", "U+0256">>, <<"U+018A", "U+0257">>,
     <<"U+018B", "U+018C">>, <<"U+018E", "U+01DD">>, <<"U+018F", "U+0259">>,
     <<"U+0190", "U+025B">>, <<"U+0191", "U+0192">>, <<"U+0193", "U+0260">>,
     <<"U+0194", "U+0263">>, <<"U+0196", "U+0269">>, <<"U+0197", "U+0268">>,
     <<"U+0198", "U+0199">>, <<"U+019C", "U+026F">>, <<"U+019D", "U+0272">>,
     <<"U+019F", "U+0275">>, <<"U+01A0", "U+01A1">>, <<"U+01A2", "U+01A3">>,
     <<"U+01A4", "U+01A5">>, <<"U+01A6", "U+0280">>, <<"U+01A7", "U+01A8">>,
     <<"U+01A9", "U+0283">>, <<"U+01AC", "U+01AD">>, <<"U+01AE", "U+0288">>,
     <<"U+01AF", "U+01B0">>, <<"U+01B1", "U+028A">>, <<"U+01B2", "U+028B">>,
     <<"U+01B3", "U+01B4">>, <<"U+01B5", "U+01B6">>, <<"U+01B7", "U+0292">>,
     <<"U+01B8", "U+01B9">>, <<"U+01BC", "U+01BD">>, <<"U+01C4", "U+01C6">>,
     <<"U+01C5", "U+01C6">>, <<"U+01C7", "U+01C9">>, <<"U+01C8", "U+01C9">>,
     <<"U+01CA", "U+01CC">>, <<"U+01CB", "U+01CC">>, <<"U+01CD", "U+01CE">>,
     <<"U+01CF", "U+01D0">>, <<"U+01D1", "U+01D2">>, <<"U+01D3", "U+01D4">>,
     <<"U+01D5", "U+01D6">>, <<"U+01D7", "U+01D8">>, <<"U+01D9", "U+01DA">>,
     <<"U+01DB", "U+01DC">>, <<"U+01DE", "U+01DF">>, <<"U+01E0", "U+01E1">>,
     <<"U+01E2", "U+01E3">>, <<"U+01E4", "U+01E5">>, <<"U+01E6", "U+01E7">>,
     <<"U+01E8", "U+01E9">>, <<"U+01EA", "U+01EB">>, <<"U+01EC", "U+01ED">>,
     <<"U+01EE", "U+01EF">>, <<"U+01F1", "U+01F3">>, <<"U+01F2", "U+01F3">>,
     <<"U+01F4", "U+01F5">>, <<"U+01F6", "U+0195">>, <<"U+01F7", "U+01BF">>,
     <<"U+01F8", "U+01F9">>, <<"U+01FA", "U+01FB">>, <<"U+01FC", "U+01FD">>,
     <<"U+01FE", "U+01FF">>, <<"U+0200", "U+0201">>, <<"U+0202", "U+0203">>,
     <<"U+0204", "U+0205">>, <<"U+0206", "U+0207">>, <<"U+0208", "U+0209">>,
     <<"U+020A", "U+020B">>, <<"U+020C", "U+020D">>, <<"U+020E", "U+020F">>,
     <<"U+0210", "U+0211">>, <<"U+0212", "U+0213">>, <<"U+0214", "U+0215">>,
     <<"U+0216", "U+0217">>, <<"U+0218", "U+0219">>, <<"U+021A", "U+021B">>,
     <<"U+021C", "U+021D">>, <<"U+021E", "U+021F">>, <<"U+0220", "U+019E">>,
     <<"U+0222", "U+0223">>, <<"U+0224", "U+0225">>, <<"U+0226", "U+0227">>,
     <<"U+0228", "U+0229">>, <<"U+022A", "U+022B">>, <<"U+022C", "U+022D">>,
     <<"U+022E", "U+022F">>, <<"U+0230", "U+0231">>, <<"U+0232", "U+0233">>,
     <<"U+023A", "U+2C65">>, <<"U+023B", "U+023C">>, <<"U+023D", "U+019A">>,
     <<"U+023E", "U+2C66">>, <<"U+0241", "U+0242">>, <<"U+0243", "U+0180">>,
     <<"U+0244", "U+0289">>, <<"U+0245", "U+028C">>, <<"U+0246", "U+0247">>,
     <<"U+0248", "U+0249">>, <<"U+024A", "U+024B">>, <<"U+024C", "U+024D">>,
     <<"U+024E", "U+024F">>, <<"U+0370", "U+0371">>, <<"U+0372", "U+0373">>,
     <<"U+0376", "U+0377">>, <<"U+037F", "U+03F3">>, <<"U+0386", "U+03AC">>,
     <<"U+0388", "U+03AD">>, <<"U+0389", "U+03AE">>, <<"U+038A", "U+03AF">>,
     <<"U+038C", "U+03CC">>, <<"U+038E", "U+03CD">>, <<"U+038F", "U+03CE">>,
     <<"U+0391", "U+03B1">>, <<"U+0392", "U+03B2">>, <<"U+0393", "U+03B3">>,
     <<"U+0394", "U+03B4">>, <<"U+0395", "U+03B5">>, <<"U+0396", "U+03B6">>,
     <<"U+0397", "U+03B7">>, <<"U+0398", "U+03B8">>, <<"U+0399", "U+03B9">>,
     <<"U+039A", "U+03BA">>, <<"U+039B", "U+03BB">>, <<"U+039C", "U+03BC">>,
     <<"U+039D", "U+03BD">>, <<"U+039E", "U+03BE">>, <<"U+039F", "U+03BF">>,
     <<"U+03A0", "U+03C0">>, <<"U+03A1", "U+03C1">>, <<"U+03A3", "U+03C3">>,
     <<"U+03A4", "U+03C4">>, <<"U+03A5", "U+03C5">>, <<"U+03A6", "U+03C6">>,
     <<"U+03A7", "U+03C7">>, <<"U+03A8", "U+03C8">>, <<"U+03A9", "U+03C9">>,
     <<"U+03AA", "U+03CA">>, <<"U+03AB", "U+03CB">>, <<"U+03CF", "U+03D7">>,
     <<"U+03D8", "U+03D9">>, <<"U+03DA", "U+03DB">>, <<"U+03DC", "U+03DD">>,
     <<"U+03DE", "U+03DF">>, <<"U+03E0", "U+03E1">>, <<"U+03E2", "U+03E3">>,
     <<"U+03E4", "U+03E5">>, <<"U+03E6", "U+03E7">>, <<"U+03E8", "U+03E9">>,
     <<"U+03EA", "U+03EB">>, <<"U+03EC", "U+03ED">>, <<"U+03EE", "U+03EF">>,
     <<"U+03F4", "U+03B8">>, <<"U+03F7", "U+03F8">>, <<"U+03F9", "U+03F2">>,
     <<"U+03FA", "U+03FB">>, <<"U+03FD", "U+037B">>, <<"U+03FE", "U+037C">>,
     <<"U+03FF", "U+037D">>, <<"U+0400", "U+0450">>, <<"U+0401", "U+0451">>,
     <<"U+0402", "U+0452">>, <<"U+0403", "U+0453">>, <<"U+0404", "U+0454">>,
     <<"U+0405", "U+0455">>, <<"U+0406", "U+0456">>, <<"U+0407", "U+0457">>,
     <<"U+0408", "U+0458">>, <<"U+0409", "U+0459">>, <<"U+040A", "U+045A">>,
     <<"U+040B", "U+045B">>, <<"U+040C", "U+045C">>, <<"U+040D", "U+045D">>,
     <<"U+040E", "U+045E">>, <<"U+040F", "U+045F">>, <<"U+0410", "U+0430">>,
     <<"U+0411", "U+0431">>, <<"U+0412", "U+0432">>, <<"U+0413", "U+0433">>,
     <<"U+0414", "U+0434">>, <<"U+0415", "U+0435">>, <<"U+0416", "U+0436">>,
     <<"U+0417", "U+0437">>, <<"U+0418", "U+0438">>, <<"U+0419", "U+0439">>,
     <<"U+041A", "U+043A">>, <<"U+041B", "U+043B">>, <<"U+041C", "U+043C">>,
     <<"U+041D", "U+043D">>, <<"U+041E", "U+043E">>, <<"U+041F", "U+043F">>,
     <<"U+0420", "U+0440">>, <<"U+0421", "U+0441">>, <<"U+0422", "U+0442">>,
     <<"U+0423", "U+0443">>, <<"U+0424", "U+0444">>, <<"U+0425", "U+0445">>,
     <<"U+0426", "U+0446">>, <<"U+0427", "U+0447">>, <<"U+0428", "U+0448">>,
     <<"U+0429", "U+0449">>, <<"U+042A", "U+044A">>, <<"U+042B", "U+044B">>,
     <<"U+042C", "U+044C">>, <<"U+042D", "U+044D">>, <<"U+042E", "U+044E">>,
     <<"U+042F", "U+044F">>, <<"U+0460", "U+0461">>, <<"U+0462", "U+0463">>,
     <<"U+0464", "U+0465">>, <<"U+0466", "U+0467">>, <<"U+0468", "U+0469">>,
     <<"U+046A", "U+046B">>, <<"U+046C", "U+046D">>, <<"U+046E", "U+046F">>,
     <<"U+0470", "U+0471">>, <<"U+0472", "U+0473">>, <<"U+0474", "U+0475">>,
     <<"U+0476", "U+0477">>, <<"U+0478", "U+0479">>, <<"U+047A", "U+047B">>,
     <<"U+047C", "U+047D">>, <<"U+047E", "U+047F">>, <<"U+0480", "U+0481">>,
     <<"U+048A", "U+048B">>, <<"U+048C", "U+048D">>, <<"U+048E", "U+048F">>,
     <<"U+0490", "U+0491">>, <<"U+0492", "U+0493">>, <<"U+0494", "U+0495">>,
     <<"U+0496", "U+0497">>, <<"U+0498", "U+0499">>, <<"U+049A", "U+049B">>,
     <<"U+049C", "U+049D">>, <<"U+049E", "U+049F">>, <<"U+04A0", "U+04A1">>,
     <<"U+04A2", "U+04A3">>, <<"U+04A4", "U+04A5">>, <<"U+04A6", "U+04A7">>,
     <<"U+04A8", "U+04A9">>, <<"U+04AA", "U+04AB">>, <<"U+04AC", "U+04AD">>,
     <<"U+04AE", "U+04AF">>, <<"U+04B0", "U+04B1">>, <<"U+04B2", "U+04B3">>,
     <<"U+04B4", "U+04B5">>, <<"U+04B6", "U+04B7">>, <<"U+04B8", "U+04B9">>,
     <<"U+04BA", "U+04BB">>, <<"U+04BC", "U+04BD">>, <<"U+04BE", "U+04BF">>,
     <<"U+04C0", "U+04CF">>, <<"U+04C1", "U+04C2">>, <<"U+04C3", "U+04C4">>,
     <<"U+04C5", "U+04C6">>, <<"U+04C7", "U+04C8">>, <<"U+04C9", "U+04CA">>,
     <<"U+04CB", "U+04CC">>, <<"U+04CD", "U+04CE">>, <<"U+04D0", "U+04D1">>,
     <<"U+04D2", "U+04D3">>, <<"U+04D4", "U+04D5">>, <<"U+04D6", "U+04D7">>,
     <<"U+04D8", "U+04D9">>, <<"U+04DA", "U+04DB">>, <<"U+04DC", "U+04DD">>,
     <<"U+04DE", "U+04DF">>, <<"U+04E0", "U+04E1">>, <<"U+04E2", "U+04E3">>,
     <<"U+04E4", "U+04E5">>, <<"U+04E6", "U+04E7">>, <<"U+04E8", "U+04E9">>,
     <<"U+04EA", "U+04EB">>, <<"U+04EC", "U+04ED">>, <<"U+04EE", "U+04EF">>,
     <<"U+04F0", "U+04F1">>, <<"U+04F2", "U+04F3">>, <<"U+04F4", "U+04F5">>,
     <<"U+04F6", "U+04F7">>, <<"U+04F8", "U+04F9">>, <<"U+04FA", "U+04FB">>,
     <<"U+04FC", "U+04FD">>, <<"U+04FE", "U+04FF">>, <<"U+0500", "U+0501">>,
     <<"U+0502", "U+0503">>, <<"U+0504", "U+0505">>, <<"U+0506", "U+0507">>,
     <<"U+0508", "U+0509">>, <<"U+050A", "U+050B">>, <<"U+050C", "U+050D">>,
     <<"U+050E", "U+050F">>, <<"U+0510", "U+0511">>, <<"U+0512", "U+0513">>,
     <<"U+0514", "U+0515">>, <<"U+0516", "U+0517">>, <<"U+0518", "U+0519">>,
     <<"U+051A", "U+051B">>, <<"U+051C", "U+051D">>, <<"U+051E", "U+051F">>,
     <<"U+0520", "U+0521">>, <<"U+0522", "U+0523">>, <<"U+0524", "U+0525">>,
     <<"U+0526", "U+0527">>, <<"U+0528", "U+0529">>, <<"U+052A", "U+052B">>,
     <<"U+052C", "U+052D">>, <<"U+052E", "U+052F">>, <<"U+0531", "U+0561">>,
     <<"U+0532", "U+0562">>, <<"U+0533", "U+0563">>, <<"U+0534", "U+0564">>,
     <<"U+0535", "U+0565">>, <<"U+0536", "U+0566">>, <<"U+0537", "U+0567">>,
     <<"U+0538", "U+0568">>, <<"U+0539", "U+0569">>, <<"U+053A", "U+056A">>,
     <<"U+053B", "U+056B">>, <<"U+053C", "U+056C">>, <<"U+053D", "U+056D">>,
     <<"U+053E", "U+056E">>, <<"U+053F", "U+056F">>, <<"U+0540", "U+0570">>,
     <<"U+0541", "U+0571">>, <<"U+0542", "U+0572">>, <<"U+0543", "U+0573">>,
     <<"U+0544", "U+0574">>, <<"U+0545", "U+0575">>, <<"U+0546", "U+0576">>,
     <<"U+0547", "U+0577">>, <<"U+0548", "U+0578">>, <<"U+0549", "U+0579">>,
     <<"U+054A", "U+057A">>, <<"U+054B", "U+057B">>, <<"U+054C", "U+057C">>,
     <<"U+054D", "U+057D">>, <<"U+054E", "U+057E">>, <<"U+054F", "U+057F">>,
     <<"U+0550", "U+0580">>, <<"U+0551", "U+0581">>, <<"U+0552", "U+0582">>,
     <<"U+0553", "U+0583">>, <<"U+0554", "U+0584">>, <<"U+0555", "U+0585">>,
     <<"U+0556", "U+0586">>, <<"U+10A0", "U+2D00">>, <<"U+10A1", "U+2D01">>,
     <<"U+10A2", "U+2D02">>, <<"U+10A3", "U+2D03">>, <<"U+10A4", "U+2D04">>,
     <<"U+10A5", "U+2D05">>, <<"U+10A6", "U+2D06">>, <<"U+10A7", "U+2D07">>,
     <<"U+10A8", "U+2D08">>, <<"U+10A9", "U+2D09">>, <<"U+10AA", "U+2D0A">>,
     <<"U+10AB", "U+2D0B">>, <<"U+10AC", "U+2D0C">>, <<"U+10AD", "U+2D0D">>,
     <<"U+10AE", "U+2D0E">>, <<"U+10AF", "U+2D0F">>, <<"U+10B0", "U+2D10">>,
     <<"U+10B1", "U+2D11">>, <<"U+10B2", "U+2D12">>, <<"U+10B3", "U+2D13">>,
     <<"U+10B4", "U+2D14">>, <<"U+10B5", "U+2D15">>, <<"U+10B6", "U+2D16">>,
     <<"U+10B7", "U+2D17">>, <<"U+10B8", "U+2D18">>, <<"U+10B9", "U+2D19">>,
     <<"U+10BA", "U+2D1A">>, <<"U+10BB", "U+2D1B">>, <<"U+10BC", "U+2D1C">>,
     <<"U+10BD", "U+2D1D">>, <<"U+10BE", "U+2D1E">>, <<"U+10BF", "U+2D1F">>,
     <<"U+10C0", "U+2D20">>, <<"U+10C1", "U+2D21">>, <<"U+10C2", "U+2D22">>,
     <<"U+10C3", "U+2D23">>, <<"U+10C4", "U+2D24">>, <<"U+10C5", "U+2D25">>,
     <<"U+10C7", "U+2D27">>, <<"U+10CD", "U+2D2D">>, <<"U+13A0", "U+AB70">>,
     <<"U+13A1", "U+AB71">>, <<"U+13A2", "U+AB72">>, <<"U+13A3", "U+AB73">>,
     <<"U+13A4", "U+AB74">>, <<"U+13A5", "U+AB75">>, <<"U+13A6", "U+AB76">>,
     <<"U+13A7", "U+AB77">>, <<"U+13A8", "U+AB78">>, <<"U+13A9", "U+AB79">>,
     <<"U+13AA", "U+AB7A">>, <<"U+13AB", "U+AB7B">>, <<"U+13AC", "U+AB7C">>,
     <<"U+13AD", "U+AB7D">>, <<"U+13AE", "U+AB7E">>, <<"U+13AF", "U+AB7F">>,
     <<"U+13B0", "U+AB80">>, <<"U+13B1", "U+AB81">>, <<"U+13B2", "U+AB82">>,
     <<"U+13B3", "U+AB83">>, <<"U+13B4", "U+AB84">>, <<"U+13B5", "U+AB85">>,
     <<"U+13B6", "U+AB86">>, <<"U+13B7", "U+AB87">>, <<"U+13B8", "U+AB88">>,
     <<"U+13B9", "U+AB89">>, <<"U+13BA", "U+AB8A">>, <<"U+13BB", "U+AB8B">>,
     <<"U+13BC", "U+AB8C">>, <<"U+13BD", "U+AB8D">>, <<"U+13BE", "U+AB8E">>,
     <<"U+13BF", "U+AB8F">>, <<"U+13C0", "U+AB90">>, <<"U+13C1", "U+AB91">>,
     <<"U+13C2", "U+AB92">>, <<"U+13C3", "U+AB93">>, <<"U+13C4", "U+AB94">>,
     <<"U+13C5", "U+AB95">>, <<"U+13C6", "U+AB96">>, <<"U+13C7", "U+AB97">>,
     <<"U+13C8", "U+AB98">>, <<"U+13C9", "U+AB99">>, <<"U+13CA", "U+AB9A">>,
     <<"U+13CB", "U+AB9B">>, <<"U+13CC", "U+AB9C">>, <<"U+13CD", "U+AB9D">>,
     <<"U+13CE", "U+AB9E">>, <<"U+13CF", "U+AB9F">>, <<"U+13D0", "U+ABA0">>,
     <<"U+13D1", "U+ABA1">>, <<"U+13D2", "U+ABA2">>, <<"U+13D3", "U+ABA3">>,
     <<"U+13D4", "U+ABA4">>, <<"U+13D5", "U+ABA5">>, <<"U+13D6", "U+ABA6">>,
     <<"U+13D7", "U+ABA7">>, <<"U+13D8", "U+ABA8">>, <<"U+13D9", "U+ABA9">>,
     <<"U+13DA", "U+ABAA">>, <<"U+13DB", "U+ABAB">>, <<"U+13DC", "U+ABAC">>,
     <<"U+13DD", "U+ABAD">>, <<"U+13DE", "U+ABAE">>, <<"U+13DF", "U+ABAF">>,
     <<"U+13E0", "U+ABB0">>, <<"U+13E1", "U+ABB1">>, <<"U+13E2", "U+ABB2">>,
     <<"U+13E3", "U+ABB3">>, <<"U+13E4", "U+ABB4">>, <<"U+13E5", "U+ABB5">>,
     <<"U+13E6", "U+ABB6">>, <<"U+13E7", "U+ABB7">>, <<"U+13E8", "U+ABB8">>,
     <<"U+13E9", "U+ABB9">>, <<"U+13EA", "U+ABBA">>, <<"U+13EB", "U+ABBB">>,
     <<"U+13EC", "U+ABBC">>, <<"U+13ED", "U+ABBD">>, <<"U+13EE", "U+ABBE">>,
     <<"U+13EF", "U+ABBF">>, <<"U+13F0", "U+13F8">>, <<"U+13F1", "U+13F9">>,
     <<"U+13F2", "U+13FA">>, <<"U+13F3", "U+13FB">>, <<"U+13F4", "U+13FC">>,
     <<"U+13F5", "U+13FD">>, <<"U+1C90", "U+10D0">>, <<"U+1C91", "U+10D1">>,
     <<"U+1C92", "U+10D2">>, <<"U+1C93", "U+10D3">>, <<"U+1C94", "U+10D4">>,
     <<"U+1C95", "U+10D5">>, <<"U+1C96", "U+10D6">>, <<"U+1C97", "U+10D7">>,
     <<"U+1C98", "U+10D8">>, <<"U+1C99", "U+10D9">>, <<"U+1C9A", "U+10DA">>,
     <<"U+1C9B", "U+10DB">>, <<"U+1C9C", "U+10DC">>, <<"U+1C9D", "U+10DD">>,
     <<"U+1C9E", "U+10DE">>, <<"U+1C9F", "U+10DF">>, <<"U+1CA0", "U+10E0">>,
     <<"U+1CA1", "U+10E1">>, <<"U+1CA2", "U+10E2">>, <<"U+1CA3", "U+10E3">>,
     <<"U+1CA4", "U+10E4">>, <<"U+1CA5", "U+10E5">>, <<"U+1CA6", "U+10E6">>,
     <<"U+1CA7", "U+10E7">>, <<"U+1CA8", "U+10E8">>, <<"U+1CA9", "U+10E9">>,
     <<"U+1CAA", "U+10EA">>, <<"U+1CAB", "U+10EB">>, <<"U+1CAC", "U+10EC">>,
     <<"U+1CAD", "U+10ED">>, <<"U+1CAE", "U+10EE">>, <<"U+1CAF", "U+10EF">>,
     <<"U+1CB0", "U+10F0">>, <<"U+1CB1", "U+10F1">>, <<"U+1CB2", "U+10F2">>,
     <<"U+1CB3", "U+10F3">>, <<"U+1CB4", "U+10F4">>, <<"U+1CB5", "U+10F5">>,
     <<"U+1CB6", "U+10F6">>, <<"U+1CB7", "U+10F7">>, <<"U+1CB8", "U+10F8">>,
     <<"U+1CB9", "U+10F9">>, <<"U+1CBA", "U+10FA">>, <<"U+1CBD", "U+10FD">>,
     <<"U+1CBE", "U+10FE">>, <<"U+1CBF", "U+10FF">>, <<"U+1E00", "U+1E01">>,
     <<"U+1E02", "U+1E03">>, <<"U+1E04", "U+1E05">>, <<"U+1E06", "U+1E07">>,
     <<"U+1E08", "U+1E09">>, <<"U+1E0A", "U+1E0B">>, <<"U+1E0C", "U+1E0D">>,
     <<"U+1E0E", "U+1E0F">>, <<"U+1E10", "U+1E11">>, <<"U+1E12", "U+1E13">>,
     <<"U+1E14", "U+1E15">>, <<"U+1E16", "U+1E17">>, <<"U+1E18", "U+1E19">>,
     <<"U+1E1A", "U+1E1B">>, <<"U+1E1C", "U+1E1D">>, <<"U+1E1E", "U+1E1F">>,
     <<"U+1E20", "U+1E21">>, <<"U+1E22", "U+1E23">>, <<"U+1E24", "U+1E25">>,
     <<"U+1E26", "U+1E27">>, <<"U+1E28", "U+1E29">>, <<"U+1E2A", "U+1E2B">>,
     <<"U+1E2C", "U+1E2D">>, <<"U+1E2E", "U+1E2F">>, <<"U+1E30", "U+1E31">>,
     <<"U+1E32", "U+1E33">>, <<"U+1E34", "U+1E35">>, <<"U+1E36", "U+1E37">>,
     <<"U+1E38", "U+1E39">>, <<"U+1E3A", "U+1E3B">>, <<"U+1E3C", "U+1E3D">>,
     <<"U+1E3E", "U+1E3F">>, <<"U+1E40", "U+1E41">>, <<"U+1E42", "U+1E43">>,
     <<"U+1E44", "U+1E45">>, <<"U+1E46", "U+1E47">>, <<"U+1E48", "U+1E49">>,
     <<"U+1E4A", "U+1E4B">>, <<"U+1E4C", "U+1E4D">>, <<"U+1E4E", "U+1E4F">>,
     <<"U+1E50", "U+1E51">>, <<"U+1E52", "U+1E53">>, <<"U+1E54", "U+1E55">>,
     <<"U+1E56", "U+1E57">>, <<"U+1E58", "U+1E59">>, <<"U+1E5A", "U+1E5B">>,
     <<"U+1E5C", "U+1E5D">>, <<"U+1E5E", "U+1E5F">>, <<"U+1E60", "U+1E61">>,
     <<"U+1E62", "U+1E63">>, <<"U+1E64", "U+1E65">>, <<"U+1E66", "U+1E67">>,
     <<"U+1E68", "U+1E69">>, <<"U+1E6A", "U+1E6B">>, <<"U+1E6C", "U+1E6D">>,
     <<"U+1E6E", "U+1E6F">>, <<"U+1E70", "U+1E71">>, <<"U+1E72", "U+1E73">>,
     <<"U+1E74", "U+1E75">>, <<"U+1E76", "U+1E77">>, <<"U+1E78", "U+1E79">>,
     <<"U+1E7A", "U+1E7B">>, <<"U+1E7C", "U+1E7D">>, <<"U+1E7E", "U+1E7F">>,
     <<"U+1E80", "U+1E81">>, <<"U+1E82", "U+1E83">>, <<"U+1E84", "U+1E85">>,
     <<"U+1E86", "U+1E87">>, <<"U+1E88", "U+1E89">>, <<"U+1E8A", "U+1E8B">>,
     <<"U+1E8C", "U+1E8D">>, <<"U+1E8E", "U+1E8F">>, <<"U+1E90", "U+1E91">>,
     <<"U+1E92", "U+1E93">>, <<"U+1E94", "U+1E95">>, <<"U+1E9E", "ß">>, <<"U+1EA0", "U+1EA1">>,
     <<"U+1EA2", "U+1EA3">>, <<"U+1EA4", "U+1EA5">>, <<"U+1EA6", "U+1EA7">>,
     <<"U+1EA8", "U+1EA9">>, <<"U+1EAA", "U+1EAB">>, <<"U+1EAC", "U+1EAD">>,
     <<"U+1EAE", "U+1EAF">>, <<"U+1EB0", "U+1EB1">>, <<"U+1EB2", "U+1EB3">>,
     <<"U+1EB4", "U+1EB5">>, <<"U+1EB6", "U+1EB7">>, <<"U+1EB8", "U+1EB9">>,
     <<"U+1EBA", "U+1EBB">>, <<"U+1EBC", "U+1EBD">>, <<"U+1EBE", "U+1EBF">>,
     <<"U+1EC0", "U+1EC1">>, <<"U+1EC2", "U+1EC3">>, <<"U+1EC4", "U+1EC5">>,
     <<"U+1EC6", "U+1EC7">>, <<"U+1EC8", "U+1EC9">>, <<"U+1ECA", "U+1ECB">>,
     <<"U+1ECC", "U+1ECD">>, <<"U+1ECE", "U+1ECF">>, <<"U+1ED0", "U+1ED1">>,
     <<"U+1ED2", "U+1ED3">>, <<"U+1ED4", "U+1ED5">>, <<"U+1ED6", "U+1ED7">>,
     <<"U+1ED8", "U+1ED9">>, <<"U+1EDA", "U+1EDB">>, <<"U+1EDC", "U+1EDD">>,
     <<"U+1EDE", "U+1EDF">>, <<"U+1EE0", "U+1EE1">>, <<"U+1EE2", "U+1EE3">>,
     <<"U+1EE4", "U+1EE5">>, <<"U+1EE6", "U+1EE7">>, <<"U+1EE8", "U+1EE9">>,
     <<"U+1EEA", "U+1EEB">>, <<"U+1EEC", "U+1EED">>, <<"U+1EEE", "U+1EEF">>,
     <<"U+1EF0", "U+1EF1">>, <<"U+1EF2", "U+1EF3">>, <<"U+1EF4", "U+1EF5">>,
     <<"U+1EF6", "U+1EF7">>, <<"U+1EF8", "U+1EF9">>, <<"U+1EFA", "U+1EFB">>,
     <<"U+1EFC", "U+1EFD">>, <<"U+1EFE", "U+1EFF">>, <<"U+1F08", "U+1F00">>,
     <<"U+1F09", "U+1F01">>, <<"U+1F0A", "U+1F02">>, <<"U+1F0B", "U+1F03">>,
     <<"U+1F0C", "U+1F04">>, <<"U+1F0D", "U+1F05">>, <<"U+1F0E", "U+1F06">>,
     <<"U+1F0F", "U+1F07">>, <<"U+1F18", "U+1F10">>, <<"U+1F19", "U+1F11">>,
     <<"U+1F1A", "U+1F12">>, <<"U+1F1B", "U+1F13">>, <<"U+1F1C", "U+1F14">>,
     <<"U+1F1D", "U+1F15">>, <<"U+1F28", "U+1F20">>, <<"U+1F29", "U+1F21">>,
     <<"U+1F2A", "U+1F22">>, <<"U+1F2B", "U+1F23">>, <<"U+1F2C", "U+1F24">>,
     <<"U+1F2D", "U+1F25">>, <<"U+1F2E", "U+1F26">>, <<"U+1F2F", "U+1F27">>,
     <<"U+1F38", "U+1F30">>, <<"U+1F39", "U+1F31">>, <<"U+1F3A", "U+1F32">>,
     <<"U+1F3B", "U+1F33">>, <<"U+1F3C", "U+1F34">>, <<"U+1F3D", "U+1F35">>,
     <<"U+1F3E", "U+1F36">>, <<"U+1F3F", "U+1F37">>, <<"U+1F48", "U+1F40">>,
     <<"U+1F49", "U+1F41">>, <<"U+1F4A", "U+1F42">>, <<"U+1F4B", "U+1F43">>,
     <<"U+1F4C", "U+1F44">>, <<"U+1F4D", "U+1F45">>, <<"U+1F59", "U+1F51">>,
     <<"U+1F5B", "U+1F53">>, <<"U+1F5D", "U+1F55">>, <<"U+1F5F", "U+1F57">>,
     <<"U+1F68", "U+1F60">>, <<"U+1F69", "U+1F61">>, <<"U+1F6A", "U+1F62">>,
     <<"U+1F6B", "U+1F63">>, <<"U+1F6C", "U+1F64">>, <<"U+1F6D", "U+1F65">>,
     <<"U+1F6E", "U+1F66">>, <<"U+1F6F", "U+1F67">>, <<"U+1F88", "U+1F80">>,
     <<"U+1F89", "U+1F81">>, <<"U+1F8A", "U+1F82">>, <<"U+1F8B", "U+1F83">>,
     <<"U+1F8C", "U+1F84">>, <<"U+1F8D", "U+1F85">>, <<"U+1F8E", "U+1F86">>,
     <<"U+1F8F", "U+1F87">>, <<"U+1F98", "U+1F90">>, <<"U+1F99", "U+1F91">>,
     <<"U+1F9A", "U+1F92">>, <<"U+1F9B", "U+1F93">>, <<"U+1F9C", "U+1F94">>,
     <<"U+1F9D", "U+1F95">>, <<"U+1F9E", "U+1F96">>, <<"U+1F9F", "U+1F97">>,
     <<"U+1FA8", "U+1FA0">>, <<"U+1FA9", "U+1FA1">>, <<"U+1FAA", "U+1FA2">>,
     <<"U+1FAB", "U+1FA3">>, <<"U+1FAC", "U+1FA4">>, <<"U+1FAD", "U+1FA5">>,
     <<"U+1FAE", "U+1FA6">>, <<"U+1FAF", "U+1FA7">>, <<"U+1FB8", "U+1FB0">>,
     <<"U+1FB9", "U+1FB1">>, <<"U+1FBA", "U+1F70">>, <<"U+1FBB", "U+1F71">>,
     <<"U+1FBC", "U+1FB3">>, <<"U+1FC8", "U+1F72">>, <<"U+1FC9", "U+1F73">>,
     <<"U+1FCA", "U+1F74">>, <<"U+1FCB", "U+1F75">>, <<"U+1FCC", "U+1FC3">>,
     <<"U+1FD8", "U+1FD0">>, <<"U+1FD9", "U+1FD1">>, <<"U+1FDA", "U+1F76">>,
     <<"U+1FDB", "U+1F77">>, <<"U+1FE8", "U+1FE0">>, <<"U+1FE9", "U+1FE1">>,
     <<"U+1FEA", "U+1F7A">>, <<"U+1FEB", "U+1F7B">>, <<"U+1FEC", "U+1FE5">>,
     <<"U+1FF8", "U+1F78">>, <<"U+1FF9", "U+1F79">>, <<"U+1FFA", "U+1F7C">>,
     <<"U+1FFB", "U+1F7D">>, <<"U+1FFC", "U+1FF3">>, <<"U+2126", "U+03C9">>, <<"U+212A", "k">>,
     <<"U+212B", "å">>, <<"U+2132", "U+214E">>, <<"U+2160", "U+2170">>, <<"U+2161", "U+2171">>,
     <<"U+2162", "U+2172">>, <<"U+2163", "U+2173">>, <<"U+2164", "U+2174">>,
     <<"U+2165", "U+2175">>, <<"U+2166", "U+2176">>, <<"U+2167", "U+2177">>,
     <<"U+2168", "U+2178">>, <<"U+2169", "U+2179">>, <<"U+216A", "U+217A">>,
     <<"U+216B", "U+217B">>, <<"U+216C", "U+217C">>, <<"U+216D", "U+217D">>,
     <<"U+216E", "U+217E">>, <<"U+216F", "U+217F">>, <<"U+2183", "U+2184">>,
     <<"U+24B6", "U+24D0">>, <<"U+24B7", "U+24D1">>, <<"U+24B8", "U+24D2">>,
     <<"U+24B9", "U+24D3">>, <<"U+24BA", "U+24D4">>, <<"U+24BB", "U+24D5">>,
     <<"U+24BC", "U+24D6">>, <<"U+24BD", "U+24D7">>, <<"U+24BE", "U+24D8">>,
     <<"U+24BF", "U+24D9">>, <<"U+24C0", "U+24DA">>, <<"U+24C1", "U+24DB">>,
     <<"U+24C2", "U+24DC">>, <<"U+24C3", "U+24DD">>, <<"U+24C4", "U+24DE">>,
     <<"U+24C5", "U+24DF">>, <<"U+24C6", "U+24E0">>, <<"U+24C7", "U+24E1">>,
     <<"U+24C8", "U+24E2">>, <<"U+24C9", "U+24E3">>, <<"U+24CA", "U+24E4">>,
     <<"U+24CB", "U+24E5">>, <<"U+24CC", "U+24E6">>, <<"U+24CD", "U+24E7">>,
     <<"U+24CE", "U+24E8">>, <<"U+24CF", "U+24E9">>, <<"U+2C00", "U+2C30">>,
     <<"U+2C01", "U+2C31">>, <<"U+2C02", "U+2C32">>, <<"U+2C03", "U+2C33">>,
     <<"U+2C04", "U+2C34">>, <<"U+2C05", "U+2C35">>, <<"U+2C06", "U+2C36">>,
     <<"U+2C07", "U+2C37">>, <<"U+2C08", "U+2C38">>, <<"U+2C09", "U+2C39">>,
     <<"U+2C0A", "U+2C3A">>, <<"U+2C0B", "U+2C3B">>, <<"U+2C0C", "U+2C3C">>,
     <<"U+2C0D", "U+2C3D">>, <<"U+2C0E", "U+2C3E">>, <<"U+2C0F", "U+2C3F">>,
     <<"U+2C10", "U+2C40">>, <<"U+2C11", "U+2C41">>, <<"U+2C12", "U+2C42">>,
     <<"U+2C13", "U+2C43">>, <<"U+2C14", "U+2C44">>, <<"U+2C15", "U+2C45">>,
     <<"U+2C16", "U+2C46">>, <<"U+2C17", "U+2C47">>, <<"U+2C18", "U+2C48">>,
     <<"U+2C19", "U+2C49">>, <<"U+2C1A", "U+2C4A">>, <<"U+2C1B", "U+2C4B">>,
     <<"U+2C1C", "U+2C4C">>, <<"U+2C1D", "U+2C4D">>, <<"U+2C1E", "U+2C4E">>,
     <<"U+2C1F", "U+2C4F">>, <<"U+2C20", "U+2C50">>, <<"U+2C21", "U+2C51">>,
     <<"U+2C22", "U+2C52">>, <<"U+2C23", "U+2C53">>, <<"U+2C24", "U+2C54">>,
     <<"U+2C25", "U+2C55">>, <<"U+2C26", "U+2C56">>, <<"U+2C27", "U+2C57">>,
     <<"U+2C28", "U+2C58">>, <<"U+2C29", "U+2C59">>, <<"U+2C2A", "U+2C5A">>,
     <<"U+2C2B", "U+2C5B">>, <<"U+2C2C", "U+2C5C">>, <<"U+2C2D", "U+2C5D">>,
     <<"U+2C2E", "U+2C5E">>, <<"U+2C2F", "U+2C5F">>, <<"U+2C60", "U+2C61">>,
     <<"U+2C62", "U+026B">>, <<"U+2C63", "U+1D7D">>, <<"U+2C64", "U+027D">>,
     <<"U+2C67", "U+2C68">>, <<"U+2C69", "U+2C6A">>, <<"U+2C6B", "U+2C6C">>,
     <<"U+2C6D", "U+0251">>, <<"U+2C6E", "U+0271">>, <<"U+2C6F", "U+0250">>,
     <<"U+2C70", "U+0252">>, <<"U+2C72", "U+2C73">>, <<"U+2C75", "U+2C76">>,
     <<"U+2C7E", "U+023F">>, <<"U+2C7F", "U+0240">>, <<"U+2C80", "U+2C81">>,
     <<"U+2C82", "U+2C83">>, <<"U+2C84", "U+2C85">>, <<"U+2C86", "U+2C87">>,
     <<"U+2C88", "U+2C89">>, <<"U+2C8A", "U+2C8B">>, <<"U+2C8C", "U+2C8D">>,
     <<"U+2C8E", "U+2C8F">>, <<"U+2C90", "U+2C91">>, <<"U+2C92", "U+2C93">>,
     <<"U+2C94", "U+2C95">>, <<"U+2C96", "U+2C97">>, <<"U+2C98", "U+2C99">>,
     <<"U+2C9A", "U+2C9B">>, <<"U+2C9C", "U+2C9D">>, <<"U+2C9E", "U+2C9F">>,
     <<"U+2CA0", "U+2CA1">>, <<"U+2CA2", "U+2CA3">>, <<"U+2CA4", "U+2CA5">>,
     <<"U+2CA6", "U+2CA7">>, <<"U+2CA8", "U+2CA9">>, <<"U+2CAA", "U+2CAB">>,
     <<"U+2CAC", "U+2CAD">>, <<"U+2CAE", "U+2CAF">>, <<"U+2CB0", "U+2CB1">>,
     <<"U+2CB2", "U+2CB3">>, <<"U+2CB4", "U+2CB5">>, <<"U+2CB6", "U+2CB7">>,
     <<"U+2CB8", "U+2CB9">>, <<"U+2CBA", "U+2CBB">>, <<"U+2CBC", "U+2CBD">>,
     <<"U+2CBE", "U+2CBF">>, <<"U+2CC0", "U+2CC1">>, <<"U+2CC2", "U+2CC3">>,
     <<"U+2CC4", "U+2CC5">>, <<"U+2CC6", "U+2CC7">>, <<"U+2CC8", "U+2CC9">>,
     <<"U+2CCA", "U+2CCB">>, <<"U+2CCC", "U+2CCD">>, <<"U+2CCE", "U+2CCF">>,
     <<"U+2CD0", "U+2CD1">>, <<"U+2CD2", "U+2CD3">>, <<"U+2CD4", "U+2CD5">>,
     <<"U+2CD6", "U+2CD7">>, <<"U+2CD8", "U+2CD9">>, <<"U+2CDA", "U+2CDB">>,
     <<"U+2CDC", "U+2CDD">>, <<"U+2CDE", "U+2CDF">>, <<"U+2CE0", "U+2CE1">>,
     <<"U+2CE2", "U+2CE3">>, <<"U+2CEB", "U+2CEC">>, <<"U+2CED", "U+2CEE">>,
     <<"U+2CF2", "U+2CF3">>, <<"U+A640", "U+A641">>, <<"U+A642", "U+A643">>,
     <<"U+A644", "U+A645">>, <<"U+A646", "U+A647">>, <<"U+A648", "U+A649">>,
     <<"U+A64A", "U+A64B">>, <<"U+A64C", "U+A64D">>, <<"U+A64E", "U+A64F">>,
     <<"U+A650", "U+A651">>, <<"U+A652", "U+A653">>, <<"U+A654", "U+A655">>,
     <<"U+A656", "U+A657">>, <<"U+A658", "U+A659">>, <<"U+A65A", "U+A65B">>,
     <<"U+A65C", "U+A65D">>, <<"U+A65E", "U+A65F">>, <<"U+A660", "U+A661">>,
     <<"U+A662", "U+A663">>, <<"U+A664", "U+A665">>, <<"U+A666", "U+A667">>,
     <<"U+A668", "U+A669">>, <<"U+A66A", "U+A66B">>, <<"U+A66C", "U+A66D">>,
     <<"U+A680", "U+A681">>, <<"U+A682", "U+A683">>, <<"U+A684", "U+A685">>,
     <<"U+A686", "U+A687">>, <<"U+A688", "U+A689">>, <<"U+A68A", "U+A68B">>,
     <<"U+A68C", "U+A68D">>, <<"U+A68E", "U+A68F">>, <<"U+A690", "U+A691">>,
     <<"U+A692", "U+A693">>, <<"U+A694", "U+A695">>, <<"U+A696", "U+A697">>,
     <<"U+A698", "U+A699">>, <<"U+A69A", "U+A69B">>, <<"U+A722", "U+A723">>,
     <<"U+A724", "U+A725">>, <<"U+A726", "U+A727">>, <<"U+A728", "U+A729">>,
     <<"U+A72A", "U+A72B">>, <<"U+A72C", "U+A72D">>, <<"U+A72E", "U+A72F">>,
     <<"U+A732", "U+A733">>, <<"U+A734", "U+A735">>, <<"U+A736", "U+A737">>,
     <<"U+A738", "U+A739">>, <<"U+A73A", "U+A73B">>, <<"U+A73C", "U+A73D">>,
     <<"U+A73E", "U+A73F">>, <<"U+A740", "U+A741">>, <<"U+A742", "U+A743">>,
     <<"U+A744", "U+A745">>, <<"U+A746", "U+A747">>, <<"U+A748", "U+A749">>,
     <<"U+A74A", "U+A74B">>, <<"U+A74C", "U+A74D">>, <<"U+A74E", "U+A74F">>,
     <<"U+A750", "U+A751">>, <<"U+A752", "U+A753">>, <<"U+A754", "U+A755">>,
     <<"U+A756", "U+A757">>, <<"U+A758", "U+A759">>, <<"U+A75A", "U+A75B">>,
     <<"U+A75C", "U+A75D">>, <<"U+A75E", "U+A75F">>, <<"U+A760", "U+A761">>,
     <<"U+A762", "U+A763">>, <<"U+A764", "U+A765">>, <<"U+A766", "U+A767">>,
     <<"U+A768", "U+A769">>, <<"U+A76A", "U+A76B">>, <<"U+A76C", "U+A76D">>,
     <<"U+A76E", "U+A76F">>, <<"U+A779", "U+A77A">>, <<"U+A77B", "U+A77C">>,
     <<"U+A77D", "U+1D79">>, <<"U+A77E", "U+A77F">>, <<"U+A780", "U+A781">>,
     <<"U+A782", "U+A783">>, <<"U+A784", "U+A785">>, <<"U+A786", "U+A787">>,
     <<"U+A78B", "U+A78C">>, <<"U+A78D", "U+0265">>, <<"U+A790", "U+A791">>,
     <<"U+A792", "U+A793">>, <<"U+A796", "U+A797">>, <<"U+A798", "U+A799">>,
     <<"U+A79A", "U+A79B">>, <<"U+A79C", "U+A79D">>, <<"U+A79E", "U+A79F">>,
     <<"U+A7A0", "U+A7A1">>, <<"U+A7A2", "U+A7A3">>, <<"U+A7A4", "U+A7A5">>,
     <<"U+A7A6", "U+A7A7">>, <<"U+A7A8", "U+A7A9">>, <<"U+A7AA", "U+0266">>,
     <<"U+A7AB", "U+025C">>, <<"U+A7AC", "U+0261">>, <<"U+A7AD", "U+026C">>,
     <<"U+A7AE", "U+026A">>, <<"U+A7B0", "U+029E">>, <<"U+A7B1", "U+0287">>,
     <<"U+A7B2", "U+029D">>, <<"U+A7B3", "U+AB53">>, <<"U+A7B4", "U+A7B5">>,
     <<"U+A7B6", "U+A7B7">>, <<"U+A7B8", "U+A7B9">>, <<"U+A7BA", "U+A7BB">>,
     <<"U+A7BC", "U+A7BD">>, <<"U+A7BE", "U+A7BF">>, <<"U+A7C0", "U+A7C1">>,
     <<"U+A7C2", "U+A7C3">>, <<"U+A7C4", "U+A794">>, <<"U+A7C5", "U+0282">>,
     <<"U+A7C6", "U+1D8E">>, <<"U+A7C7", "U+A7C8">>, <<"U+A7C9", "U+A7CA">>,
     <<"U+A7D0", "U+A7D1">>, <<"U+A7D6", "U+A7D7">>, <<"U+A7D8", "U+A7D9">>,
     <<"U+A7F5", "U+A7F6">>, <<"U+FF21", "U+FF41">>, <<"U+FF22", "U+FF42">>,
     <<"U+FF23", "U+FF43">>, <<"U+FF24", "U+FF44">>, <<"U+FF25", "U+FF45">>,
     <<"U+FF26", "U+FF46">>, <<"U+FF27", "U+FF47">>, <<"U+FF28", "U+FF48">>,
     <<"U+FF29", "U+FF49">>, <<"U+FF2A", "U+FF4A">>, <<"U+FF2B", "U+FF4B">>,
     <<"U+FF2C", "U+FF4C">>, <<"U+FF2D", "U+FF4D">>, <<"U+FF2E", "U+FF4E">>,
     <<"U+FF2F", "U+FF4F">>, <<"U+FF30", "U+FF50">>, <<"U+FF31", "U+FF51">>,
     <<"U+FF32", "U+FF52">>, <<"U+FF33", "U+FF53">>, <<"U+FF34", "U+FF54">>,
     <<"U+FF35", "U+FF55">>, <<"U+FF36", "U+FF56">>, <<"U+FF37", "U+FF57">>,
     <<"U+FF38", "U+FF58">>, <<"U+FF39", "U+FF59">>, <<"U+FF3A", "U+FF5A">>,
     <<"U+10400", "U+10428">>, <<"U+10401", "U+10429">>, <<"U+10402", "U+1042A">>,
     <<"U+10403", "U+1042B">>, <<"U+10404", "U+1042C">>, <<"U+10405", "U+1042D">>,
     <<"U+10406", "U+1042E">>, <<"U+10407", "U+1042F">>, <<"U+10408", "U+10430">>,
     <<"U+10409", "U+10431">>, <<"U+1040A", "U+10432">>, <<"U+1040B", "U+10433">>,
     <<"U+1040C", "U+10434">>, <<"U+1040D", "U+10435">>, <<"U+1040E", "U+10436">>,
     <<"U+1040F", "U+10437">>, <<"U+10410", "U+10438">>, <<"U+10411", "U+10439">>,
     <<"U+10412", "U+1043A">>, <<"U+10413", "U+1043B">>, <<"U+10414", "U+1043C">>,
     <<"U+10415", "U+1043D">>, <<"U+10416", "U+1043E">>, <<"U+10417", "U+1043F">>,
     <<"U+10418", "U+10440">>, <<"U+10419", "U+10441">>, <<"U+1041A", "U+10442">>,
     <<"U+1041B", "U+10443">>, <<"U+1041C", "U+10444">>, <<"U+1041D", "U+10445">>,
     <<"U+1041E", "U+10446">>, <<"U+1041F", "U+10447">>, <<"U+10420", "U+10448">>,
     <<"U+10421", "U+10449">>, <<"U+10422", "U+1044A">>, <<"U+10423", "U+1044B">>,
     <<"U+10424", "U+1044C">>, <<"U+10425", "U+1044D">>, <<"U+10426", "U+1044E">>,
     <<"U+10427", "U+1044F">>, <<"U+104B0", "U+104D8">>, <<"U+104B1", "U+104D9">>,
     <<"U+104B2", "U+104DA">>, <<"U+104B3", "U+104DB">>, <<"U+104B4", "U+104DC">>,
     <<"U+104B5", "U+104DD">>, <<"U+104B6", "U+104DE">>, <<"U+104B7", "U+104DF">>,
     <<"U+104B8", "U+104E0">>, <<"U+104B9", "U+104E1">>, <<"U+104BA", "U+104E2">>,
     <<"U+104BB", "U+104E3">>, <<"U+104BC", "U+104E4">>, <<"U+104BD", "U+104E5">>,
     <<"U+104BE", "U+104E6">>, <<"U+104BF", "U+104E7">>, <<"U+104C0", "U+104E8">>,
     <<"U+104C1", "U+104E9">>, <<"U+104C2", "U+104EA">>, <<"U+104C3", "U+104EB">>,
     <<"U+104C4", "U+104EC">>, <<"U+104C5", "U+104ED">>, <<"U+104C6", "U+104EE">>,
     <<"U+104C7", "U+104EF">>, <<"U+104C8", "U+104F0">>, <<"U+104C9", "U+104F1">>,
     <<"U+104CA", "U+104F2">>, <<"U+104CB", "U+104F3">>, <<"U+104CC", "U+104F4">>,
     <<"U+104CD", "U+104F5">>, <<"U+104CE", "U+104F6">>, <<"U+104CF", "U+104F7">>,
     <<"U+104D0", "U+104F8">>, <<"U+104D1", "U+104F9">>, <<"U+104D2", "U+104FA">>,
     <<"U+104D3", "U+104FB">>, <<"U+10570", "U+10597">>, <<"U+10571", "U+10598">>,
     <<"U+10572", "U+10599">>, <<"U+10573", "U+1059A">>, <<"U+10574", "U+1059B">>,
     <<"U+10575", "U+1059C">>, <<"U+10576", "U+1059D">>, <<"U+10577", "U+1059E">>,
     <<"U+10578", "U+1059F">>, <<"U+10579", "U+105A0">>, <<"U+1057A", "U+105A1">>,
     <<"U+1057C", "U+105A3">>, <<"U+1057D", "U+105A4">>, <<"U+1057E", "U+105A5">>,
     <<"U+1057F", "U+105A6">>, <<"U+10580", "U+105A7">>, <<"U+10581", "U+105A8">>,
     <<"U+10582", "U+105A9">>, <<"U+10583", "U+105AA">>, <<"U+10584", "U+105AB">>,
     <<"U+10585", "U+105AC">>, <<"U+10586", "U+105AD">>, <<"U+10587", "U+105AE">>,
     <<"U+10588", "U+105AF">>, <<"U+10589", "U+105B0">>, <<"U+1058A", "U+105B1">>,
     <<"U+1058C", "U+105B3">>, <<"U+1058D", "U+105B4">>, <<"U+1058E", "U+105B5">>,
     <<"U+1058F", "U+105B6">>, <<"U+10590", "U+105B7">>, <<"U+10591", "U+105B8">>,
     <<"U+10592", "U+105B9">>, <<"U+10594", "U+105BB">>, <<"U+10595", "U+105BC">>,
     <<"U+10C80", "U+10CC0">>, <<"U+10C81", "U+10CC1">>, <<"U+10C82", "U+10CC2">>,
     <<"U+10C83", "U+10CC3">>, <<"U+10C84", "U+10CC4">>, <<"U+10C85", "U+10CC5">>,
     <<"U+10C86", "U+10CC6">>, <<"U+10C87", "U+10CC7">>, <<"U+10C88", "U+10CC8">>,
     <<"U+10C89", "U+10CC9">>, <<"U+10C8A", "U+10CCA">>, <<"U+10C8B", "U+10CCB">>,
     <<"U+10C8C", "U+10CCC">>, <<"U+10C8D", "U+10CCD">>, <<"U+10C8E", "U+10CCE">>,
     <<"U+10C8F", "U+10CCF">>, <<"U+10C90", "U+10CD0">>, <<"U+10C91", "U+10CD1">>,
     <<"U+10C92", "U+10CD2">>, <<"U+10C93", "U+10CD3">>, <<"U+10C94", "U+10CD4">>,
     <<"U+10C95", "U+10CD5">>, <<"U+10C96", "U+10CD6">>, <<"U+10C97", "U+10CD7">>,
     <<"U+10C98", "U+10CD8">>, <<"U+10C99", "U+10CD9">>, <<"U+10C9A", "U+10CDA">>,
     <<"U+10C9B", "U+10CDB">>, <<"U+10C9C", "U+10CDC">>, <<"U+10C9D", "U+10CDD">>,
     <<"U+10C9E", "U+10CDE">>, <<"U+10C9F", "U+10CDF">>, <<"U+10CA0", "U+10CE0">>,
     <<"U+10CA1", "U+10CE1">>, <<"U+10CA2", "U+10CE2">>, <<"U+10CA3", "U+10CE3">>,
     <<"U+10CA4", "U+10CE4">>, <<"U+10CA5", "U+10CE5">>, <<"U+10CA6", "U+10CE6">>,
     <<"U+10CA7", "U+10CE7">>, <<"U+10CA8", "U+10CE8">>, <<"U+10CA9", "U+10CE9">>,
     <<"U+10CAA", "U+10CEA">>, <<"U+10CAB", "U+10CEB">>, <<"U+10CAC", "U+10CEC">>,
     <<"U+10CAD", "U+10CED">>, <<"U+10CAE", "U+10CEE">>, <<"U+10CAF", "U+10CEF">>,
     <<"U+10CB0", "U+10CF0">>, <<"U+10CB1", "U+10CF1">>, <<"U+10CB2", "U+10CF2">>,
     <<"U+118A0", "U+118C0">>, <<"U+118A1", "U+118C1">>, <<"U+118A2", "U+118C2">>,
     <<"U+118A3", "U+118C3">>, <<"U+118A4", "U+118C4">>, <<"U+118A5", "U+118C5">>,
     <<"U+118A6", "U+118C6">>, <<"U+118A7", "U+118C7">>, <<"U+118A8", "U+118C8">>,
     <<"U+118A9", "U+118C9">>, <<"U+118AA", "U+118CA">>, <<"U+118AB", "U+118CB">>,
     <<"U+118AC", "U+118CC">>, <<"U+118AD", "U+118CD">>, <<"U+118AE", "U+118CE">>,
     <<"U+118AF", "U+118CF">>, <<"U+118B0", "U+118D0">>, <<"U+118B1", "U+118D1">>,
     <<"U+118B2", "U+118D2">>, <<"U+118B3", "U+118D3">>, <<"U+118B4", "U+118D4">>,
     <<"U+118B5", "U+118D5">>, <<"U+118B6", "U+118D6">>, <<"U+118B7", "U+118D7">>,
     <<"U+118B8", "U+118D8">>, <<"U+118B9", "U+118D9">>, <<"U+118BA", "U+118DA">>,
     <<"U+118BB", "U+118DB">>, <<"U+118BC", "U+118DC">>, <<"U+118BD", "U+118DD">>,
     <<"U+118BE", "U+118DE">>, <<"U+118BF", "U+118DF">>, <<"U+16E40", "U+16E60">>,
     <<"U+16E41", "U+16E61">>, <<"U+16E42", "U+16E62">>, <<"U+16E43", "U+16E63">>,
     <<"U+16E44", "U+16E64">>, <<"U+16E45", "U+16E65">>, <<"U+16E46", "U+16E66">>,
     <<"U+16E47", "U+16E67">>, <<"U+16E48", "U+16E68">>, <<"U+16E49", "U+16E69">>,
     <<"U+16E4A", "U+16E6A">>, <<"U+16E4B", "U+16E6B">>, <<"U+16E4C", "U+16E6C">>,
     <<"U+16E4D", "U+16E6D">>, <<"U+16E4E", "U+16E6E">>, <<"U+16E4F", "U+16E6F">>,
     <<"U+16E50", "U+16E70">>, <<"U+16E51", "U+16E71">>, <<"U+16E52", "U+16E72">>,
     <<"U+16E53", "U+16E73">>, <<"U+16E54", "U+16E74">>, <<"U+16E55", "U+16E75">>,
     <<"U+16E56", "U+16E76">>, <<"U+16E57", "U+16E77">>, <<"U+16E58", "U+16E78">>,
     <<"U+16E59", "U+16E79">>, <<"U+16E5A", "U+16E7A">>, <<"U+16E5B", "U+16E7B">>,
     <<"U+16E5C", "U+16E7C">>, <<"U+16E5D", "U+16E7D">>, <<"U+16E5E", "U+16E7E">>,
     <<"U+16E5F", "U+16E7F">>, <<"U+1E900", "U+1E922">>, <<"U+1E901", "U+1E923">>,
     <<"U+1E902", "U+1E924">>, <<"U+1E903", "U+1E925">>, <<"U+1E904", "U+1E926">>,
     <<"U+1E905", "U+1E927">>, <<"U+1E906", "U+1E928">>, <<"U+1E907", "U+1E929">>,
     <<"U+1E908", "U+1E92A">>, <<"U+1E909", "U+1E92B">>, <<"U+1E90A", "U+1E92C">>,
     <<"U+1E90B", "U+1E92D">>, <<"U+1E90C", "U+1E92E">>, <<"U+1E90D", "U+1E92F">>,
     <<"U+1E90E", "U+1E930">>, <<"U+1E90F", "U+1E931">>, <<"U+1E910", "U+1E932">>,
     <<"U+1E911", "U+1E933">>, <<"U+1E912", "U+1E934">>, <<"U+1E913", "U+1E935">>,
     <<"U+1E914", "U+1E936">>, <<"U+1E915", "U+1E937">>, <<"U+1E916", "U+1E938">>,
     <<"U+1E917", "U+1E939">>, <<"U+1E918", "U+1E93A">>, <<"U+1E919", "U+1E93B">>,
     <<"U+1E91A", "U+1E93C">>, <<"U+1E91B", "U+1E93D">>, <<"U+1E91C", "U+1E93E">>,
     <<"U+1E91D", "U+1E93F">>, <<"U+1E91E", "U+1E940">>, <<"U+1E91F", "U+1E941">>,
     <<"U+1E920", "U+1E942">>, <<"U+1E921", "U+1E943">>}

\* unicode.ToLower on the characters it changes
LowerOf == [c \in {p[1] : p \in CaseRanges} |-> (CHOOSE p \in CaseRanges : p[1] = c)[2]]

\* strings.ToLower
ToLower(s) == [i \in 1..Len(s) |-> IF s[i] \in DOMAIN LowerOf THEN LowerOf[s[i]] ELSE s[i]]

\* unicode.White_Space: the characters strings.TrimSpace removes; the two after
\* the blank are U+0085 (next line) and U+00A0 (no-break space), written as
\* themselves
WhiteSpace ==
    {"\t", "\n", "U+000B", "\f", "\r", " ", "", " ", "U+1680", "U+2000", "U+2001",
     "U+2002", "U+2003", "U+2004", "U+2005", "U+2006", "U+2007", "U+2008", "U+2009", "U+200A",
     "U+2028", "U+2029", "U+202F", "U+205F", "U+3000"}

\* unicode.IsSpace
IsSpace(c) == c \in WhiteSpace

RECURSIVE TrimLeft(_)
TrimLeft(s) == IF s # <<>> /\ IsSpace(Head(s)) THEN TrimLeft(Tail(s)) ELSE s

RECURSIVE TrimRight(_)
TrimRight(s) ==
    IF s # <<>> /\ IsSpace(s[Len(s)]) THEN TrimRight(SubSeq(s, 1, Len(s) - 1)) ELSE s

\* strings.TrimSpace
TrimSpace(s) == TrimRight(TrimLeft(s))

\* strings.HasPrefix
HasPrefix(s, p) == Len(s) >= Len(p) /\ SubSeq(s, 1, Len(p)) = p

HexDigits == <<"0","1","2","3","4","5","6","7","8","9","a","b","c","d","e","f">>

\* what hex.DecodeString takes for a digit
IsHexChar(c) ==
    c \in {"0","1","2","3","4","5","6","7","8","9","a","b","c","d","e","f",
           "A","B","C","D","E","F"}

\* a faulty variant: upper-case digits pass
IsValid32ByteHexAnyCase(s) ==
    /\ Len(s) = 2 * KeyBytes
    /\ \A i \in 1..Len(s) : IsHexChar(s[i])

\* nostr.IsValid32ByteHex: lower case, 64 characters, hex
IsValid32ByteHex(s) ==
    /\ Len(s) = 2 * KeyBytes
    /\ ToLower(s) = s
    /\ \A i \in 1..Len(s) : IsHexChar(s[i])

NsecPrefix == <<"n","s","e","c","1">>

NcryptsecPrefix == <<"n","c","r","y","p","t","s","e","c","1">>

-----------------------------------------------------------------------------
(* bech32 and nip19.Decode, for strings that start with nsec1 *)

Bech32Charset ==
    <<"q","p","z","r","y","9","x","8","g","f","2","t","v","d","w","0",
      "s","3","j","n","5","4","k","h","c","e","6","m","u","a","7","l">>

InCharset(c) == \E k \in 1..32 : Bech32Charset[k] = c

CharsetValue(c) == (CHOOSE k \in 1..32 : Bech32Charset[k] = c) - 1

\* exclusive or of two bits, of two 5-bit groups, of two 30-bit words
XorBit(a, b) == (a + b) % 2

Xor5(a, b) ==
    XorBit(a % 2, b % 2) + 2 * XorBit((a \div 2) % 2, (b \div 2) % 2)
    + 4 * XorBit((a \div 4) % 2, (b \div 4) % 2)
    + 8 * XorBit((a \div 8) % 2, (b \div 8) % 2)
    + 16 * XorBit((a \div 16) % 2, (b \div 16) % 2)

Xor(a, b) ==
    Xor5(a % 32, b % 32)
    + 32 * Xor5((a \div 32) % 32, (b \div 32) % 32)
    + 1024 * Xor5((a \div 1024) % 32, (b \div 1024) % 32)
    + 32768 * Xor5((a \div 32768) % 32, (b \div 32768) % 32)
    + 1048576 * Xor5((a \div 1048576) % 32, (b \div 1048576) % 32)
    + 33554432 * Xor5((a \div 33554432) % 32, (b \div 33554432) % 32)

Pow2(n) == IF n = 0 THEN 1 ELSE IF n = 1 THEN 2 ELSE IF n = 2 THEN 4
           ELSE IF n = 3 THEN 8 ELSE IF n = 4 THEN 16 ELSE IF n = 5 THEN 32
           ELSE IF n = 6 THEN 64 ELSE 128

Bech32Gen == <<996825010, 642813549, 513874426, 1027748829, 705979059>>

\* chk ^= gen[k] if bit k of top is set
XorGen(chk, top, k) ==
    IF (top \div Pow2(k - 1)) % 2 = 1 THEN Xor(chk, Bech32Gen[k]) ELSE chk

\* one round of bech32Polymod
PolymodStep(chk, v) ==
    LET top == chk \div 33554432
        c0  == Xor((chk % 33554432) * 32, v)
        c1  == XorGen(c0, top, 1)
        c2  == XorGen(c1, top, 2)
        c3  == XorGen(c2, top, 3)
        c4  == XorGen(c3, top, 4)
    IN XorGen(c4, top, 5)

\* the rounds for values[lo..hi], in order, from chk
RECURSIVE PolymodRange(_, _, _, _)
PolymodRange(chk, values, lo, hi) ==
    IF lo > hi THEN chk
    ELSE IF lo = hi THEN PolymodStep(chk, values[lo])
    ELSE LET mid  == (lo + hi) \div 2
             left == PolymodRange(chk, values, lo, mid)
         IN IF left >= 0 THEN PolymodRange(left, values, mid + 1, hi) ELSE 0

Bech32Polymod(values) == PolymodRange(1, values, 1, Len(values))

\* the high bits, a zero and the low bits of the characters of "nsec"
NsecHrpExpand == <<3, 3, 3, 3, 0, 14, 19, 5, 3>>

\* bech32 (1) or bech32m (0x2bc830a3) checksum
ChecksumOk(values) == Bech32Polymod(NsecHrpExpand \o values) \in {1, 734539939}

LastIndexOne(s) ==
    IF \A i \in 1..Len(s) : s[i] # "1" THEN 0
    ELSE CHOOSE i \in 1..Len(s) : s[i] = "1" /\ \A j \in (i + 1)..Len(s) : s[j] # "1"

\* bit p (from 0, most significant first) of a sequence of 5-bit groups
BitAt(vals, p) == (vals[(p \div 5) + 1] \div Pow2(4 - (p % 5))) % 2

ByteAt(vals, k) ==
    128 * BitAt(vals, 8 * k) + 64 * BitAt(vals, 8 * k + 1) + 32 * BitAt(vals, 8 * k + 2)
    + 16 * BitAt(vals, 8 * k + 3) + 8 * BitAt(vals, 8 * k + 4) + 4 * BitAt(vals, 8 * k + 5)
    + 2 * BitAt(vals, 8 * k + 6) + BitAt(vals, 8 * k + 7)

\* bech32.ConvertBits(data, 5, 8, false): [ok, bytes]; an incomplete last group
\* must be at most 4 bits, all zero
ConvertBits(vals) ==
    LET total == 5 * Len(vals)
        n     == total \div 8
        rest  == total % 8
    IN [ok    |-> rest <= 4 /\ \A p \in (8 * n)..(total - 1) : BitAt(vals, p) = 0,
        bytes |-> [k \in 1..n |-> ByteAt(vals, k - 1)]]

\* hex.EncodeToString
HexEncode(bytes) ==
    [i \in 1..(2 * Len(bytes)) |->
        IF i % 2 = 1 THEN HexDigits[(bytes[(i + 1) \div 2] \div 16) + 1]
                     ELSE HexDigits[(bytes[i \div 2] % 16) + 1]]

\* nip19.Decode of a string with the nsec1 prefix: [ok, hex]
Nip19Decode(s) ==
    LET one  == LastIndexOne(s)
        hrp  == SubSeq(s, 1, one - 1)
        data == SubSeq(s, one + 1, Len(s))
        bad  == [ok |-> FALSE, hex |-> <<>>]
    IN IF Len(s) < 8 \/ one < 2 \/ one + 6 > Len(s) THEN bad
       ELSE IF \E i \in 1..Len(data) : ~InCharset(data[i]) THEN bad
       ELSE IF hrp # <<"n","s","e","c">> THEN bad
       ELSE LET values == [i \in 1..Len(data) |-> CharsetValue(data[i])]
            IN IF ~ChecksumOk(values) THEN bad
               ELSE LET cb == ConvertBits(SubSeq(values, 1, Len(values) - 6))
                    IN IF ~cb.ok \/ Len(cb.bytes) < KeyBytes THEN bad
                       ELSE [ok |-> TRUE, hex |-> HexEncode(SubSeq(cb.bytes, 1, KeyBytes))]

-----------------------------------------------------------------------------
(* The values the runs are tried on *)

\* a secret key in hex, and its nsec (the example of NIP-19)
HexKey ==
    <<"6","7","d","e","a","2","e","d","0","1","8","0","7","2","d","6",
      "7","5","f","5","4","1","5","e","c","f","a","e","d","7","d","2",
      "5","9","7","5","5","5","e","2","0","2","d","8","5","b","3","d",
      "6","5","e","a","4","e","5","8","d","2","d","9","2","f","f","a">>

NsecGood ==
    <<"n","s","e","c","1","v","l","0","2","9","m","g","p","s","p","e",
      "d","v","a","0","4","g","9","0","v","l","t","k","h","6","f","v",
      "h","2","4","0","z","q","t","v","9","k","0","t","9","a","f","8",
      "9","3","5","k","e","9","l","a","q","s","n","l","f","e","5">>

\* the same key as a user may type it: upper-case digits, blanks around
HexTyped == <<" ">> \o [HexKey EXCEPT ![3] = "D", ![4] = "E", ![64] = "A"] \o <<" ">>

\* the same hex with upper-case digits, as a flag value (flags are not normalised)
HexUpper == [HexKey EXCEPT ![3] = "D", ![4] = "E", ![64] = "A"]

\* another key, as found in the store
HexStored == Rep("a", 2 * KeyBytes)

\* nsec1 strings that do not decode: a character outside the charset, a bad checksum
NsecInvalid == <<"n","s","e","c","1","i","n","v","a","l","i","d">>

NsecBadSum == [NsecGood EXCEPT ![10] = "q"]

Garbage == <<"f","o","o">>

\* encrypted keys: one made with the passphrase Pw1, one with the passphrase pw
BlobUpper == NcryptsecPrefix \o <<"q","q">>

BlobLower == NcryptsecPrefix \o <<"p","p">>

\* an encrypted key given with a blank after it, as a flag value may be
BlobPadded == BlobLower \o <<" ">>

PassUpper == <<"P","w","1">>

PassLower == <<"p","w">>

BunkerA == <<"b","u","n","k","e","r",":","/","/","a">>

BunkerU == <<"b","u","n","k","e","r",":","/","/","u">>

Empty == <<>>

\* the flags of a run: --connect, --sec (with IsSet), --store-sec
SecFlags == {Empty, HexKey, HexUpper, NsecGood, NsecInvalid, BlobLower, BlobPadded, Garbage}

Opts ==
    {o \in [connect : {Empty, BunkerU}, sec : SecFlags, secSet : BOOLEAN,
            storeSec : BOOLEAN] : ~o.secSet => o.sec = Empty}

\* what the repository's configuration may hold before the first run
StoredSecrets == {Empty, HexStored, BlobUpper, Garbage}

InitStores == [bunker : {Empty, BunkerA}, secretkey : StoredSecrets]

\* what nip46.ConnectBunker may return: a session, no session and an error, or a
\* client whose connect request failed
ConnectResults ==
    {[bunker |-> "handle", err |-> "nil"],
     [bunker |-> "nil", err |-> "invalid url"],
     [bunker |-> "handle", err |-> "connect failed"]}

\* what one rl.Readline() may return
ReadErrors == {"Interrupt", "EOF"}

Reads(lines) ==
    {[line |-> l, err |-> "nil"] : l \in lines}
        \cup {[line |-> Empty, err |-> e] : e \in ReadErrors}

SecretLines == {HexTyped, NsecGood, NsecInvalid, NsecBadSum, BlobLower, Garbage, Empty}

ConfirmLines ==
    {<<"y">>, <<" "," ","","Y","E","S","\f">>, <<"n">>, <<"n","o">>, <<"Ö","k">>}

PasswordLines == {PassUpper, PassLower, <<"P","W"," ">>, Garbage}

DecryptBlobs == {BlobUpper, BlobLower, NsecGood}

\* how many lines a user types at one prompt before giving up
MaxReads == 2

\* nip19.Decode of the nsec1 strings above, decoded once
Decoded ==
    [s \in {x \in SecFlags \cup SecretLines \cup StoredSecrets : HasPrefix(x, NsecPrefix)}
        |-> Nip19Decode(s)]

DecodeNsec(s) == IF s \in DOMAIN Decoded THEN Decoded[s] ELSE Nip19Decode(s)

-----------------------------------------------------------------------------
(* The collaborators: git config, nip49.Decrypt *)

\* a faulty variant: the output of the command is not trimmed
gitRaw(st, args) ==
    IF Len(args) = 2
    THEN [out |-> Empty, st |-> [st EXCEPT ![args[1]] = args[2]]]
    ELSE [out |-> st[args[1]], st |-> st]

\* git("config", "--local", name) prints the value (nothing when unset) and
\* git("config", "--local", name, value) sets it and prints nothing; args is what
\* follows "--local".  The result is the trimmed output and the store afterwards.
git(st, args) ==
    IF Len(args) = 2
    THEN [out |-> Empty, st |-> [st EXCEPT ![args[1]] = args[2]]]
    ELSE [out |-> TrimSpace(st[args[1]]), st |-> st]

\* nip49.Decrypt: the key and no error with the passphrase the blob was made
\* with, an error otherwise
Nip49Decrypt(b, password) ==
    IF b = BlobUpper /\ password = PassUpper THEN [sec |-> HexKey, err |-> "nil"]
    ELSE IF b = BlobLower /\ password = PassLower THEN [sec |-> HexStored, err |-> "nil"]
    ELSE [sec |-> Empty, err |-> "invalid password"]

-----------------------------------------------------------------------------
(* The prompt engine *)

\* the closure gatherSecretKeyOrBunker gives to ask: whether to ask again, and
\* what it sets askToStore to when it accepts
SecretValidator(answer) ==
    IF IsValid32ByteHex(answer) THEN [again |-> FALSE, askToStore |-> TRUE]
    ELSE IF HasPrefix(answer, NsecPrefix) THEN [again |-> FALSE, askToStore |-> TRUE]
    ELSE IF HasPrefix(answer, NcryptsecPrefix) THEN [again |-> FALSE, askToStore |-> FALSE]
    ELSE [again |-> TRUE, askToStore |-> FALSE]

\* the closure confirm gives to ask: whether to ask again, and what it sets res to
ConfirmValidator(answer) ==
    IF answer \in {<<"y">>, <<"y","e","s">>} THEN [again |-> FALSE, res |-> TRUE]
    ELSE IF answer \in {<<"n">>, <<"n","o">>} THEN [again |-> FALSE, res |-> FALSE]
    ELSE [again |-> TRUE, res |-> FALSE]

\* promptDecrypt passes nil for shouldAskAgain
HasPredicate(kind) == kind # "password"

shouldAskAgain(kind, answer) ==
    IF kind = "secret" THEN SecretValidator(answer).again
    ELSE IF kind = "confirm" THEN ConfirmValidator(answer).again
    ELSE FALSE

\* what _ask makes of the line read
Normalize(line) == TrimSpace(ToLower(line))

\* a faulty variant: the predicate is not consulted
AskIterationNoRetry(kind, in) ==
    [kind |-> kind, line |-> in.line,
     answer |-> IF in.err # "nil" THEN Empty ELSE Normalize(in.line),
     out |-> IF in.err # "nil" THEN "error" ELSE "return", err |-> in.err]

\* one iteration of the loop of _ask on what readline returned (for the first
\* iteration also the error of readline.NewEx): the read as logged, with
\* out = "error" (return "", err), "again" (continue) or "return" (return answer)
AskIteration(kind, in) ==
    IF in.err # "nil"
    THEN [kind |-> kind, line |-> in.line, answer |-> Empty, out |-> "error", err |-> in.err]
    ELSE LET answer == Normalize(in.line)
         IN IF HasPredicate(kind) /\ shouldAskAgain(kind, answer)
            THEN [kind |-> kind, line |-> in.line, answer |-> answer, out |-> "again",
                  err |-> "nil"]
            ELSE [kind |-> kind, line |-> in.line, answer |-> answer, out |-> "return",
                  err |-> "nil"]

\* the iterations logged for one kind of prompt
AsksOf(log, kind) == SelectSeq(log, LAMBDA e : e.kind = kind)

\* what a prompt may get next: a line, a read error, or, before the first read, the
\* failure of readline.NewEx
PromptInputs(lines, first) ==
    Reads(lines) \cup (IF first THEN {[line |-> Empty, err |-> "NewEx failed"]} ELSE {})

-----------------------------------------------------------------------------
(* gatherSecretKeyOrBunker *)

NoRet == [bunker |-> "none", key |-> Empty, encrypted |-> FALSE, err |-> "none"]

Ret(b, k, e, err) == [bunker |-> b, key |-> k, encrypted |-> e, err |-> err]

GitCall(args) == [args |-> args]

\* lines 35-38: the address of the bunker, with the store and the git calls after
BunkerURL(o, st) ==
    IF o.connect = Empty
    THEN LET g == git(st, <<"bunker", o.connect>>)
         IN [url |-> g.out, st |-> g.st, calls |-> <<GitCall(<<"bunker", o.connect>>)>>]
    ELSE [url |-> o.connect, st |-> st, calls |-> <<>>]

\* a faulty variant: the test of line 42 inverted
PersistBunkerInverted(r) == r.bunker = "nil"

\* line 42: the address is stored when ConnectBunker returned a client
PersistBunker(r) == r.bunker # "nil"

\* a faulty variant: the address is not stored and the error is replaced
ConnectBranchWrapped(url, r, st) ==
    [st |-> st, calls |-> <<>>,
     ret |-> Ret(r.bunker, Empty, FALSE, IF r.err = "nil" THEN "nil" ELSE "couldn't connect")]

\* lines 39-46: connect, store the address, return
ConnectBranch(url, r, st) ==
    IF PersistBunker(r)
    THEN [st |-> git(st, <<"bunker", url>>).st, calls |-> <<GitCall(<<"bunker", url>>)>>,
          ret |-> Ret(r.bunker, Empty, FALSE, r.err)]
    ELSE [st |-> st, calls |-> <<>>, ret |-> Ret(r.bunker, Empty, FALSE, r.err)]

\* a faulty variant: whether the flag was set is not looked at
CandidateSecretAnyEmpty(o, st) ==
    IF o.sec = Empty
    THEN [sec |-> git(st, <<"secretkey">>).out, calls |-> <<GitCall(<<"secretkey">>)>>]
    ELSE [sec |-> o.sec, calls |-> <<>>]

\* lines 48-51: the secret of the flag, or the stored one when the flag is not set
CandidateSecret(o, st) ==
    IF o.sec = Empty /\ ~o.secSet
    THEN [sec |-> git(st, <<"secretkey">>).out, calls |-> <<GitCall(<<"secretkey">>)>>]
    ELSE [sec |-> o.sec, calls |-> <<>>]

\* a faulty variant: the answer of confirm is ignored
ShouldStoreUnconfirmed(ats, confirmed, storeSec) == ats \/ storeSec

\* a faulty variant: store-sec inverted
ShouldStoreUnlessForced(ats, confirmed, storeSec) == (ats /\ confirmed) \/ ~storeSec

\* a faulty variant: store-sec counts only for a typed secret
ShouldStoreTypedOnly(ats, confirmed, storeSec) == ats /\ (confirmed \/ storeSec)

\* lines 91-92: whether the plain key is stored
ShouldStore(ats, confirmed, storeSec) == (ats /\ confirmed) \/ storeSec

\* lines 91-96: store the plain key or not, return it
Finish(s, ats, confirmed, storeSec, st) ==
    IF ShouldStore(ats, confirmed, storeSec)
    THEN [pc |-> "done", sec |-> s, st |-> git(st, <<"secretkey", s>>).st,
          calls |-> <<GitCall(<<"secretkey", s>>)>>, ret |-> Ret("nil", s, FALSE, "nil")]
    ELSE [pc |-> "done", sec |-> s, st |-> st, calls |-> <<>>,
          ret |-> Ret("nil", s, FALSE, "nil")]

\* a faulty variant: the encrypted key is returned and not stored
EncryptedBranchNoStore(s, st) ==
    [pc |-> "done", sec |-> s, st |-> st, calls |-> <<>>, ret |-> Ret("nil", s, TRUE, "nil")]

\* lines 76-77: the encrypted key is stored and returned as it is
EncryptedBranch(s, st) ==
    [pc |-> "done", sec |-> s, st |-> git(st, <<"secretkey", s>>).st,
     calls |-> <<GitCall(<<"secretkey", s>>)>>, ret |-> Ret("nil", s, TRUE, "nil")]

\* a faulty variant: with store-sec the secret is stored before it is validated
ClassifyStoreBeforeCheck(s, ats, storeSec, st) ==
    IF HasPrefix(s, NcryptsecPrefix)
    THEN EncryptedBranch(s, st)
    ELSE LET isNsec == HasPrefix(s, NsecPrefix)
             d   == DecodeNsec(s)
             hex == IF isNsec THEN d.hex ELSE s
             st1 == IF storeSec THEN git(st, <<"secretkey", s>>).st ELSE st
             c1  == IF storeSec THEN <<GitCall(<<"secretkey", s>>)>> ELSE <<>>
         IN IF isNsec /\ ~d.ok
            THEN [pc |-> "done", sec |-> s, st |-> st1, calls |-> c1,
                  ret |-> Ret("nil", Empty, FALSE, "invalid nsec")]
            ELSE IF ~IsValid32ByteHex(hex)
            THEN [pc |-> "done", sec |-> hex, st |-> st1, calls |-> c1,
                  ret |-> Ret("nil", Empty, FALSE, "invalid secret key")]
            ELSE IF ats
            THEN [pc |-> "confirm", sec |-> hex, st |-> st, calls |-> <<>>, ret |-> NoRet]
            ELSE Finish(hex, ats, FALSE, storeSec, st)

\* lines 75-96 for a non-empty sec, up to the return or to the call of confirm
Classify(s, ats, storeSec, st) ==
    IF HasPrefix(s, NcryptsecPrefix)
    THEN EncryptedBranch(s, st)
    ELSE LET isNsec == HasPrefix(s, NsecPrefix)
             d   == DecodeNsec(s)
             hex == IF isNsec THEN d.hex ELSE s
         IN IF isNsec /\ ~d.ok
            THEN [pc |-> "done", sec |-> s, st |-> st, calls |-> <<>>,
                  ret |-> Ret("nil", Empty, FALSE, "invalid nsec")]
            ELSE IF ~IsValid32ByteHex(hex)
            THEN [pc |-> "done", sec |-> hex, st |-> st, calls |-> <<>>,
                  ret |-> Ret("nil", Empty, FALSE, "invalid secret key")]
            ELSE IF ats
            THEN [pc |-> "confirm", sec |-> hex, st |-> st, calls |-> <<>>, ret |-> NoRet]
            ELSE Finish(hex, ats, FALSE, storeSec, st)

\* whether promptDecrypt goes round again: for i := 1; i < 4; i++
AttemptLimit == 4

\* a faulty variant: one attempt too many
LoopConditionOneMore(i) == i <= AttemptLimit

LoopCondition(i) == i < AttemptLimit

\* a faulty variant: the last attempt's own result instead of the terminal error
ExhaustedLastError(d) == [sec |-> d.sec, err |-> d.err]

\* line 213, after the last failed nip49.Decrypt d: the terminal error
Exhausted(d) == [sec |-> Empty, err |-> "couldn't decrypt private key"]

\* a faulty variant: the read error is replaced by the terminal error
ReadFailedTerminal(err) == [sec |-> Empty, err |-> "couldn't decrypt private key"]

\* lines 204-206, when askPassword returned the error err
ReadFailed(err) == [sec |-> Empty, err |-> err]

NoPret == [sec |-> Empty, err |-> "none"]

\* no run has written the stored secret yet
NoWrite == [any |-> FALSE, value |-> Empty, key |-> Empty]

\* the run wrote the stored secret
WroteSecret(log) ==
    \E i \in 1..Len(log) : Len(log[i].args) = 2 /\ log[i].args[1] = "secretkey"

NoOpts == [connect |-> Empty, sec |-> Empty, secSet |-> FALSE, storeSec |-> FALSE]

-----------------------------------------------------------------------------
(* The state machine *)

Init ==
    /\ store \in InitStores
    /\ store0 = store
    /\ pc = "idle"
    /\ opts = NoOpts
    /\ sec = Empty
    /\ askToStore = FALSE
    /\ ret = NoRet
    /\ connects = <<>>
    /\ gitLog = <<>>
    /\ asks = <<>>
    /\ blob = Empty
    /\ attempt = 0
    /\ decrypts = <<>>
    /\ pret = NoPret
    /\ written = NoWrite
    /\ fin = <<>>
    /\ fslice = <<>>
    /\ fkeep = {}
    /\ fout = <<>>

Returned == pc \in {"done", "pdone"}

\* a run of gatherSecretKeyOrBunker with the flags o, where ConnectBunker, if
\* called, returns r: lines 35-54, then either lines 75-96 or the secret prompt
GatherStart(o, r) ==
    /\ pc = "idle"
    /\ \E b \in {BunkerURL(o, store)} :
          /\ UNCHANGED <<written, fin, fslice, fkeep, fout>>
          /\ store0' = store
          /\ opts' = o
          /\ asks' = <<>>
          /\ blob' = Empty
          /\ attempt' = 0
          /\ decrypts' = <<>>
          /\ pret' = NoPret
          /\ IF b.url # Empty
             THEN \E c \in {ConnectBranch(b.url, r, b.st)} :
                     /\ connects' = <<[url |-> b.url, res |-> r]>>
                     /\ store' = c.st
                     /\ gitLog' = b.calls \o c.calls
                     /\ ret' = c.ret
                     /\ pc' = "done"
                     /\ sec' = Empty
                     /\ askToStore' = FALSE
             ELSE \E cand \in {CandidateSecret(o, b.st)} :
                     /\ connects' = <<>>
                     /\ askToStore' = FALSE
                     /\ IF cand.sec = Empty
                        THEN /\ pc' = "secret"
                             /\ sec' = Empty
                             /\ store' = b.st
                             /\ gitLog' = b.calls \o cand.calls
                             /\ ret' = NoRet
                        ELSE \E k \in {Classify(cand.sec, FALSE, o.storeSec, b.st)} :
                                /\ pc' = k.pc
                                /\ sec' = k.sec
                                /\ store' = k.st
                                /\ gitLog' = b.calls \o cand.calls \o k.calls
                                /\ ret' = k.ret

\* one read of the secret prompt (lines 55-73), and what follows an accepted
\* answer (lines 75-96, up to the return or to the call of confirm)
SecretRead(in) ==
    /\ pc = "secret"
    /\ Len(AsksOf(asks, "secret")) < MaxReads
    /\ \E it \in {AskIteration("secret", in)} :
          /\ asks' = Append(asks, it)
          /\ IF it.out = "again"
             THEN UNCHANGED <<pc, sec, askToStore, store, gitLog, ret>>
             ELSE IF it.out = "error" \/ it.answer = Empty
             THEN /\ pc' = "done"
                  /\ ret' = Ret("nil", Empty, FALSE, "couldn't gather secret key")
                  /\ UNCHANGED <<sec, askToStore, store, gitLog>>
             ELSE \E ats \in {SecretValidator(it.answer).askToStore} :
                  \E k \in {Classify(it.answer, ats, opts.storeSec, store)} :
                     /\ askToStore' = ats
                     /\ pc' = k.pc
                     /\ sec' = k.sec
                     /\ store' = k.st
                     /\ gitLog' = gitLog \o k.calls
                     /\ ret' = k.ret
    /\ UNCHANGED <<store0, opts, connects, blob, attempt, decrypts, pret>>
    /\ UNCHANGED <<written, fin, fslice, fkeep, fout>>

\* one read of the prompt of confirm (lines 180-195), and lines 91-96 once
\* confirm has returned
ConfirmRead(in) ==
    /\ pc = "confirm"
    /\ Len(AsksOf(asks, "confirm")) < MaxReads
    /\ \E it \in {AskIteration("confirm", in)} :
          /\ asks' = Append(asks, it)
          /\ IF it.out = "again"
             THEN UNCHANGED <<pc, sec, store, gitLog, ret>>
             ELSE \E res \in {IF it.out = "error" THEN FALSE
                                ELSE ConfirmValidator(it.answer).res} :
                  \E k \in {Finish(sec, askToStore, res, opts.storeSec, store)} :
                     /\ pc' = k.pc
                     /\ sec' = k.sec
                     /\ store' = k.st
                     /\ gitLog' = gitLog \o k.calls
                     /\ ret' = k.ret
    /\ UNCHANGED <<store0, opts, askToStore, connects, blob, attempt, decrypts, pret>>
    /\ UNCHANGED <<written, fin, fslice, fkeep, fout>>

\* promptDecrypt(b) up to its first prompt
PromptDecryptStart(b) ==
    /\ pc = "idle"
    /\ pc' = "password"
    /\ blob' = b
    /\ attempt' = 1
    /\ decrypts' = <<>>
    /\ pret' = NoPret
    /\ asks' = <<>>
    /\ store0' = store
    /\ opts' = NoOpts
    /\ sec' = Empty
    /\ askToStore' = FALSE
    /\ ret' = NoRet
    /\ connects' = <<>>
    /\ gitLog' = <<>>
    /\ UNCHANGED <<store, written, fin, fslice, fkeep, fout>>

\* one askPassword of promptDecrypt (lines 203-211), then the loop's i++ and test
PasswordRead(in) ==
    /\ pc = "password"
    /\ \E it \in {AskIteration("password", in)} :
          /\ asks' = Append(asks, it)
          /\ IF it.out = "error"
             THEN /\ pret' = ReadFailed(it.err)
                  /\ pc' = "pdone"
                  /\ UNCHANGED <<attempt, decrypts>>
             ELSE \E d \in {Nip49Decrypt(blob, it.answer)} :
                     /\ decrypts' = Append(decrypts,
                            [attempt |-> attempt, typed |-> it.line,
                             password |-> it.answer, sec |-> d.sec, err |-> d.err])
                     /\ IF d.err = "nil"
                        THEN /\ pret' = [sec |-> d.sec, err |-> "nil"]
                             /\ pc' = "pdone"
                             /\ UNCHANGED attempt
                        ELSE /\ attempt' = attempt + 1
                             /\ IF LoopCondition(attempt + 1)
                                THEN UNCHANGED <<pc, pret>>
                                ELSE /\ pret' = Exhausted(d)
                                     /\ pc' = "pdone"
    /\ UNCHANGED <<store, store0, opts, sec, askToStore, ret, connects, gitLog, blob>>
    /\ UNCHANGED <<written, fin, fslice, fkeep, fout>>

\* the process ends: the result and the locals are gone, the configuration stays
ProcessExit ==
    /\ Returned
    /\ pc' = "idle"
    /\ store0' = store
    /\ opts' = NoOpts
    /\ sec' = Empty
    /\ askToStore' = FALSE
    /\ ret' = NoRet
    /\ connects' = <<>>
    /\ gitLog' = <<>>
    /\ asks' = <<>>
    /\ blob' = Empty
    /\ attempt' = 0
    /\ decrypts' = <<>>
    /\ pret' = NoPret
    /\ written' = IF WroteSecret(gitLog)
                  THEN [any |-> TRUE, value |-> store.secretkey, key |-> ret.key]
                  ELSE written
    /\ UNCHANGED <<store, fin, fslice, fkeep, fout>>

Next ==
    \/ \E o \in Opts, r \in ConnectResults : GatherStart(o, r)
    \/ \E in \in PromptInputs(SecretLines, AsksOf(asks, "secret") = <<>>) : SecretRead(in)
    \/ \E in \in PromptInputs(ConfirmLines, AsksOf(asks, "confirm") = <<>>) : ConfirmRead(in)
    \/ \E b \in DecryptBlobs : PromptDecryptStart(b)
    \/ \E in \in PromptInputs(PasswordLines, TRUE) : PasswordRead(in)
    \/ ProcessExit

Spec == Init /\ [][Next]_vars

-----------------------------------------------------------------------------
(* filterSlice *)

\* the longest slice given to filterSlice
MaxLen == 3

\* the elements of the slices
FilterValues == {"a", "b", "c"}

Slices == UNION {[1..n -> FilterValues] : n \in 0..MaxLen}

\* a faulty variant: the elements after the dropped one stay where they are
ShiftDownNone(slice, i) == slice

\* line 276, copy(slice[i:], slice[i+1:]), for the element at position i
\* (counted from 1): the elements after it move down by one, the last stays
ShiftDown(slice, i) ==
    [j \in 1..Len(slice) |-> IF j >= i /\ j < Len(slice) THEN slice[j + 1] ELSE slice[j]]

\* lines 271-278: the loop from position i (counted from 1) down to the first,
\* then line 279; keep is the set of the values keep is true of
RECURSIVE FilterLoop(_, _, _, _)
FilterLoop(slice, keep, i, keeping) ==
    IF i < 1
    THEN [out |-> SubSeq(slice, 1, keeping), slice |-> slice]
    ELSE IF slice[i] \in keep
    THEN FilterLoop(slice, keep, i - 1, keeping + 1)
    ELSE FilterLoop(ShiftDown(slice, i), keep, i - 1, keeping)

\* lines 269-280: what is returned, and the elements of the array afterwards
filterSlice(slice, keep) == FilterLoop(slice, keep, Len(slice), 0)

InitFilter ==
    /\ store = [bunker |-> Empty, secretkey |-> Empty]
    /\ store0 = store
    /\ pc = "idle"
    /\ opts = NoOpts
    /\ sec = Empty
    /\ askToStore = FALSE
    /\ ret = NoRet
    /\ connects = <<>>
    /\ gitLog = <<>>
    /\ asks = <<>>
    /\ blob = Empty
    /\ attempt = 0
    /\ decrypts = <<>>
    /\ pret = NoPret
    /\ written = NoWrite
    /\ fin \in Slices
    /\ fslice = fin
    /\ fkeep \in SUBSET FilterValues
    /\ fout = <<>>

\* one call filterSlice(fin, keep)
FilterCall ==
    /\ pc = "idle"
    /\ pc' = "filtered"
    /\ \E r \in {filterSlice(fin, fkeep)} :
          /\ fout' = r.out
          /\ fslice' = r.slice
    /\ UNCHANGED <<store, store0, opts, sec, askToStore, ret, connects, gitLog, asks,
                   blob, attempt, decrypts, pret, written, fin, fkeep>>

NextFilter == FilterCall

SpecFilter == InitFilter /\ [][NextFilter]_vars

-----------------------------------------------------------------------------
(* What the claims speak of *)

\* a run of gatherSecretKeyOrBunker is under way or has returned
InGather == pc \in {"secret", "confirm", "done"}

Indices(s) == 1..Len(s)

\* the run wrote the stored secret with a value that is not an encrypted key
PlainStoreCalled ==
    \E i \in Indices(gitLog) :
        /\ Len(gitLog[i].args) = 2
        /\ gitLog[i].args[1] = "secretkey"
        /\ ~HasPrefix(gitLog[i].args[2], NcryptsecPrefix)

\* the user typed yes at the store confirmation of this run
UserSaidYes ==
    \E i \in Indices(asks) :
        /\ asks[i].kind = "confirm"
        /\ asks[i].err = "nil"
        /\ Normalize(asks[i].line) \in {<<"y">>, <<"y","e","s">>}

\* the run read or wrote the stored secret
SecretKeyTouched == \E i \in Indices(gitLog) : gitLog[i].args[1] = "secretkey"

Failed(k) == decrypts[k].err # "nil"

\* the run is in local-key mode: it attempted no connection
LocalMode == InGather /\ connects = <<>>

\* the run read the stored secret
StoredSecretRead == \E i \in Indices(gitLog) : gitLog[i].args = <<"secretkey">>

\* the run issued the secret prompt
SecretPromptIssued == pc = "secret" \/ AsksOf(asks, "secret") # <<>>

\* the run issued the store confirmation
ConfirmIssued == pc = "confirm" \/ AsksOf(asks, "confirm") # <<>>

\* the candidate secret: the flag's value if the flag was set, else the stored
\* secret as git prints it at the start of the run
Candidate == IF opts.secSet THEN opts.sec ELSE TrimSpace(store0.secretkey)

\* the answers the secret prompt returned to the run
SecretAnswers ==
    {asks[i].answer : i \in {j \in Indices(asks) :
                                asks[j].kind = "secret" /\ asks[j].out = "return"}}

\* the secrets the run resolved (at most one): the candidate, or when it is
\* empty the non-empty answer of the secret prompt
Resolved == IF Candidate # Empty THEN {Candidate} ELSE SecretAnswers \ {Empty}

\* a plain-form secret is valid when it is 64 lower-case hex digits, or an
\* nsec1 string that decodes to such a key
IsLowerHexKey(k) ==
    /\ Len(k) = 2 * KeyBytes
    /\ \A i \in 1..Len(k) : \E j \in 1..Len(HexDigits) : k[i] = HexDigits[j]

\* the hex form of a valid plain-form secret s
HexOf(s) == IF HasPrefix(s, NsecPrefix) THEN DecodeNsec(s).hex ELSE s

ValidPlain(s) ==
    /\ ~HasPrefix(s, NcryptsecPrefix)
    /\ IF HasPrefix(s, NsecPrefix)
       THEN DecodeNsec(s).ok /\ IsLowerHexKey(DecodeNsec(s).hex)
       ELSE IsLowerHexKey(s)

\* the run wrote the stored secret
SecretSet == WroteSecret(gitLog)

\* the run wrote v to the stored secret
SecretWritten(v) == \E i \in Indices(gitLog) : gitLog[i].args = <<"secretkey", v>>

MaxAttempts == AttemptLimit - 1

-----------------------------------------------------------------------------
(* The claims *)

\* C1: a run writes the stored secret with a plain-form key only if the user
\* answered yes to the store confirmation in that run or store-sec was set:
\* store_called => (confirmed or forced).
C1_PlainStoreOnlyConfirmedOrForced ==
    PlainStoreCalled => (UserSaidYes \/ opts.storeSec)

C1_Witness ==
    /\ pc = "done"
    /\ PlainStoreCalled
    /\ UserSaidYes
    /\ ~opts.storeSec
    /\ store.secretkey = ret.key
    /\ store0.secretkey # ret.key

\* C2: with an empty connect flag and a non-empty stored bunker address A, the
\* run reads A from the store and attempts the connection with A, instead of
\* going to local-key mode.
C2_StoredBunkerIsReused ==
    (InGather /\ opts.connect = Empty /\ store0.bunker # Empty)
        => /\ Len(connects) = 1
           /\ connects[1].url = store0.bunker
           /\ pc = "done"

\* C3: promptDecrypt calls the decrypt primitive at most 3 times, and when the
\* first successful decrypt is attempt k it has called it exactly k times, has
\* prompted k times, prompts no more and returns that attempt's plaintext with
\* no error.
C3_DecryptAtMostThriceFirstSuccessWins ==
    /\ Len(decrypts) <= MaxAttempts
    /\ \A k \in Indices(decrypts) :
          ~Failed(k) =>
              /\ k = Len(decrypts)
              /\ \A j \in 1..(k - 1) : Failed(j)
              /\ Len(asks) = k
              /\ pc = "pdone"
              /\ pret = [sec |-> decrypts[k].sec, err |-> "nil"]
              /\ pret.sec = Nip49Decrypt(blob, decrypts[k].password).sec

C3_Witness ==
    /\ pc = "pdone"
    /\ Len(decrypts) = MaxAttempts
    /\ Failed(1) /\ Failed(2) /\ ~Failed(3)
    /\ pret = [sec |-> HexStored, err |-> "nil"]

\* C4: when the decrypt primitive fails on three consecutive passphrase
\* prompts, promptDecrypt ends after exactly 3 prompts with the terminal
\* "couldn't decrypt" error and an empty plaintext: no 4th prompt, no plaintext.
C4_ThreeFailuresExhaust ==
    (Len(decrypts) >= MaxAttempts /\ \A k \in 1..MaxAttempts : Failed(k))
        => /\ Len(decrypts) = MaxAttempts
           /\ Len(asks) = MaxAttempts
           /\ pc = "pdone"
           /\ pret = [sec |-> Empty, err |-> "couldn't decrypt private key"]

C4_Witness ==
    /\ pc = "pdone"
    /\ Len(decrypts) = MaxAttempts
    /\ \A k \in 1..MaxAttempts : Failed(k)
    /\ pret.err = "couldn't decrypt private key"

\* C5: _ask returns an answer only when there is no predicate or the predicate
\* returned false for the normalized answer; an answer the predicate rejects is
\* never returned and is followed by another read of the same prompt; a failed
\* read returns the error.
C5_AskNeverReturnsRejected ==
    \A i \in Indices(asks) :
        LET e == asks[i]
            rejected == e.err = "nil" /\ HasPredicate(e.kind)
                            /\ shouldAskAgain(e.kind, Normalize(e.line))
        IN /\ e.out = "error" <=> e.err # "nil"
           /\ e.out = "return" => (e.answer = Normalize(e.line) /\ ~rejected)
           /\ rejected => e.out = "again"
           /\ e.out = "again" =>
                 IF i < Len(asks) THEN asks[i + 1].kind = e.kind ELSE pc = e.kind

C5_Witness ==
    \E i \in Indices(asks) :
        /\ i < Len(asks)
        /\ asks[i].out = "again"
        /\ asks[i + 1].out = "return"
        /\ asks[i + 1].kind = "confirm"

\* C6: when a non-empty bunker address is resolved and the connection fails,
\* the run returns the connection error as it is, has attempted the connection
\* once, and does not fall back to local-key mode: no prompt, no read or write of
\* the stored secret.
C6_ConnectFailureIsFinal ==
    (connects # <<>> /\ connects[1].res.err # "nil")
        => /\ Len(connects) = 1
           /\ pc = "done"
           /\ ret.err = connects[1].res.err
           /\ ret.key = Empty
           /\ ~ret.encrypted
           /\ asks = <<>>
           /\ ~SecretKeyTouched
           /\ store.secretkey = store0.secretkey

C6_Witness ==
    /\ pc = "done"
    /\ connects # <<>>
    /\ connects[1].res = [bunker |-> "nil", err |-> "invalid url"]
    /\ ret.err = "invalid url"
    /\ store0.secretkey = HexStored

\* C7: with a non-empty connect flag U and a successful connection, Connect is
\* invoked with U, the run returns the remote handle (empty key, not encrypted,
\* no error) and the stored bunker address is U afterwards; also when it was U
\* before the run.
C7_ConnectFlagStored ==
    (pc = "done" /\ opts.connect # Empty)
        => /\ Len(connects) = 1
           /\ connects[1].url = opts.connect
           /\ connects[1].res = [bunker |-> "handle", err |-> "nil"]
                 => /\ ret = Ret("handle", Empty, FALSE, "nil")
                    /\ store.bunker = opts.connect
                    /\ git(store, <<"bunker">>).out = opts.connect

C7_Witness ==
    /\ pc = "done"
    /\ opts.connect = BunkerU
    /\ connects[1].res = [bunker |-> "handle", err |-> "nil"]
    /\ store0.bunker = BunkerU
    /\ store.bunker = BunkerU

\* C8: when a read fails (the user aborts) at the secret prompt or at the store
\* confirmation, the run returns that read's error untouched, and no
\* successful result.
C8_InterruptPropagates ==
    \A i \in Indices(asks) :
        (asks[i].kind \in {"secret", "confirm"} /\ asks[i].out = "error")
            => (pc = "done" /\ ret.err = asks[i].err)

\* C9: the masked prompt does not case-fold: the passphrase promptDecrypt gives
\* to the decrypt primitive is the typed one (blanks around it aside), so the
\* passphrase a blob was encrypted with, typed as it is, decrypts it.
C9_PassphraseCasePreserved ==
    \A k \in Indices(decrypts) :
        /\ decrypts[k].password = TrimSpace(decrypts[k].typed)
        /\ (blob = BlobUpper /\ decrypts[k].typed = PassUpper) => ~Failed(k)

\* C10: at the secret prompt an nsec1 answer that does not decode is rejected
\* and the prompt is read again, the run does not fail on it; a well-formed
\* nsec1 answer is accepted and the run returns its 32-byte hex form.
C10_BadNsecReprompts ==
    \A i \in Indices(asks) :
        LET e == asks[i]
        IN (e.kind = "secret" /\ e.err = "nil" /\ HasPrefix(e.answer, NsecPrefix))
              => IF DecodeNsec(e.answer).ok
                 THEN /\ e.out = "return"
                      /\ pc = "done" => (ret.err = "nil" /\ ret.key = DecodeNsec(e.answer).hex)
                 ELSE /\ e.out = "again"
                      /\ ret.err # "invalid nsec"

\* C11: in local-key mode the candidate secret is the value of the sec flag if
\* the flag was set, else the stored secret; the stored secret is read only
\* when the flag was not set; the secret prompt is issued exactly when the
\* candidate is empty, and a non-empty candidate is what the run resolves.
C11_CandidateOrder ==
    LocalMode =>
        /\ StoredSecretRead <=> ~opts.secSet
        /\ SecretPromptIssued <=> Candidate = Empty
        /\ (pc = "done" /\ Candidate # Empty)
              => ret = Classify(Candidate, FALSE, opts.storeSec, store0).ret

C11_Witness ==
    /\ LocalMode
    /\ pc = "secret"
    /\ opts.secSet
    /\ opts.sec = Empty
    /\ store0.secretkey = HexStored
    /\ ~StoredSecretRead

\* C12: a resolved secret with the ncryptsec1 prefix, from the flag, the store
\* or the prompt, is written to the stored secret with no confirmation and
\* whatever store-sec is, and is returned unchanged with encrypted = true and
\* no error; nothing in plain form is written.
C12_EncryptedKeyStoredAndReturned ==
    LocalMode =>
        \A s \in Resolved :
            HasPrefix(s, NcryptsecPrefix) =>
                /\ pc = "done"
                /\ ret = Ret("nil", s, TRUE, "nil")
                /\ SecretWritten(s)
                /\ store.secretkey = s
                /\ ~ConfirmIssued
                /\ ~PlainStoreCalled

C12_Witness ==
    /\ LocalMode
    /\ pc = "done"
    /\ Candidate = Empty
    /\ Resolved = {BlobLower}
    /\ ~opts.storeSec
    /\ store0.secretkey = Empty
    /\ store.secretkey = BlobLower
    /\ ret = Ret("nil", BlobLower, TRUE, "nil")

\* C13: when the read of the passphrase prompt of attempt i fails, promptDecrypt
\* returns at once that same error and an empty plaintext: the decrypt
\* primitive is not called for attempt i, there is no later prompt, and the
\* error is not replaced by the terminal error.
C13_PassphraseReadErrorReturned ==
    \A i \in Indices(asks) :
        (asks[i].kind = "password" /\ asks[i].out = "error")
            => /\ i = Len(asks)
               /\ i <= MaxAttempts
               /\ pc = "pdone"
               /\ pret = [sec |-> Empty, err |-> asks[i].err]
               /\ pret.err # "couldn't decrypt private key"
               /\ Len(decrypts) = i - 1
               /\ \A k \in Indices(decrypts) : Failed(k)

C13_Witness ==
    /\ pc = "pdone"
    /\ Len(asks) = MaxAttempts
    /\ asks[MaxAttempts].out = "error"
    /\ asks[MaxAttempts].err = "Interrupt"
    /\ Len(decrypts) = MaxAttempts - 1
    /\ pret = [sec |-> Empty, err |-> "Interrupt"]

\* a run with no flag set, after an earlier run wrote the stored secret
RunAfterWrite == InGather /\ opts = NoOpts /\ written.any

\* C14 as stated: after a run that wrote S to the stored secret, every later
\* run with no flags and no remote address resolves the very key that run
\* returned, with no secret prompt and no confirmation, and leaves the stored
\* secret equal to S.
C14_StoredSecretReusedVerbatim ==
    RunAfterWrite =>
        /\ LocalMode
        /\ pc = "done"
        /\ asks = <<>>
        /\ ret.err = "nil"
        /\ ret.key = written.key
        /\ store.secretkey = written.value

\* C14 amended: after a run that wrote S to the stored secret, every later run
\* with no flags and no remote address resolves the key that run returned with
\* the white space around it trimmed, with no secret prompt and no
\* confirmation, and leaves the stored secret equal to S trimmed likewise.
C14_StoredSecretReusedTrimmed ==
    RunAfterWrite =>
        /\ LocalMode
        /\ pc = "done"
        /\ asks = <<>>
        /\ ret.err = "nil"
        /\ ret.key = TrimSpace(written.key)
        /\ store.secretkey = TrimSpace(written.value)

C14_Witness ==
    /\ RunAfterWrite
    /\ pc = "done"
    /\ written = [any |-> TRUE, value |-> BlobPadded, key |-> BlobPadded]
    /\ ret = Ret("nil", BlobLower, TRUE, "nil")
    /\ store.secretkey = BlobLower

\* the run established a remote session: ConnectBunker returned a client and
\* no error
SessionEstablished ==
    /\ connects # <<>>
    /\ connects[1].res.bunker # "nil"
    /\ connects[1].res.err = "nil"

\* C15: the stored bunker address is changed only after a successful
\* connection: every run that established no remote session leaves it as it
\* was when the run began.
C15_BunkerKeptWithoutSession ==
    (InGather /\ ~SessionEstablished) => store.bunker = store0.bunker

\* C16: a resolved secret that has not the ncryptsec1 prefix and is not a
\* valid plain key makes the run return an error and an empty key, and the
\* stored secret is not written, even when store-sec is set and even when the
\* secret came from the store.
C16_InvalidSecretNeverStored ==
    LocalMode =>
        \A s \in Resolved :
            (~HasPrefix(s, NcryptsecPrefix) /\ ~ValidPlain(s))
                => /\ pc = "done"
                   /\ ret.err \in {"invalid nsec", "invalid secret key"}
                   /\ ret.key = Empty
                   /\ ret.bunker = "nil"
                   /\ ~ret.encrypted
                   /\ ~SecretSet
                   /\ store.secretkey = store0.secretkey

C16_Witness ==
    /\ LocalMode
    /\ pc = "done"
    /\ opts.storeSec
    /\ ~opts.secSet
    /\ store0.secretkey = Garbage
    /\ Resolved = {Garbage}
    /\ ret = Ret("nil", Empty, FALSE, "invalid secret key")
    /\ store.secretkey = Garbage

\* the three variants of a result without error
IsRemoteHandle(r) == r.bunker # "nil" /\ r.key = Empty /\ ~r.encrypted

IsEncryptedKey(r) == r.bunker = "nil" /\ r.encrypted /\ HasPrefix(r.key, NcryptsecPrefix)

IsPlainKey(r) == r.bunker = "nil" /\ ~r.encrypted /\ IsLowerHexKey(r.key)

VariantsOf(r) ==
    {v \in {"handle", "encrypted", "plain"} :
        \/ v = "handle" /\ IsRemoteHandle(r)
        \/ v = "encrypted" /\ IsEncryptedKey(r)
        \/ v = "plain" /\ IsPlainKey(r)}

\* C17: every result of gatherSecretKeyOrBunker is exactly one variant: with a
\* nil error a remote handle with an empty key and encrypted = false, or
\* encrypted = true with an ncryptsec1 key and no handle, or encrypted = false
\* with a valid 32-byte hex key and no handle; with an error the key is empty
\* and encrypted is false.
C17_ResultIsOneVariant ==
    (InGather /\ pc = "done") =>
        IF ret.err = "nil"
        THEN Cardinality(VariantsOf(ret)) = 1
        ELSE ret.key = Empty /\ ~ret.encrypted

C17_Witness ==
    /\ InGather
    /\ pc = "done"
    /\ opts.secSet
    /\ opts.sec = NsecGood
    /\ ret.err = "nil"
    /\ VariantsOf(ret) = {"plain"}
    /\ ret.key = HexKey

\* C18: a valid plain-form secret given by the sec flag or found in the store,
\* with store-sec not set, is returned in hex form as a plain key with no
\* error; no store confirmation is issued and the stored secret is left as it
\* was (an empty one stays empty).
C18_NonInteractivePlainKeyNotStored ==
    (LocalMode /\ Candidate # Empty /\ ValidPlain(Candidate) /\ ~opts.storeSec)
        => /\ pc = "done"
           /\ ret = Ret("nil", HexOf(Candidate), FALSE, "nil")
           /\ IsLowerHexKey(ret.key)
           /\ asks = <<>>
           /\ ~ConfirmIssued
           /\ ~SecretSet
           /\ store.secretkey = store0.secretkey

C18_Witness ==
    /\ LocalMode
    /\ pc = "done"
    /\ opts.secSet
    /\ opts.sec = HexKey
    /\ ~opts.storeSec
    /\ store0.secretkey = Empty
    /\ store.secretkey = Empty
    /\ ret = Ret("nil", HexKey, FALSE, "nil")

\* C19: for a valid plain-form secret the run writes the stored secret if and
\* only if store-sec is set or the secret was typed at the prompt and the user
\* confirmed; what it writes is the normalized hex key it returns, also for a
\* typed nsec1; with store-sec set it writes whatever the user answers.
C19_PlainKeyStoredIffForcedOrConfirmed ==
    LocalMode =>
        \A s \in Resolved :
            ValidPlain(s) =>
                /\ pc = "confirm" => ~SecretSet
                /\ pc = "done" =>
                      /\ ret = Ret("nil", HexOf(s), FALSE, "nil")
                      /\ SecretSet <=> (opts.storeSec \/ (Candidate = Empty /\ UserSaidYes))
                      /\ SecretSet =>
                            /\ SecretWritten(ret.key)
                            /\ store.secretkey = ret.key
                            /\ IsLowerHexKey(ret.key)
                      /\ ~SecretSet => store.secretkey = store0.secretkey

C19_Witness ==
    /\ LocalMode
    /\ pc = "done"
    /\ Candidate = Empty
    /\ Resolved = {NsecGood}
    /\ opts.storeSec
    /\ ConfirmIssued
    /\ ~UserSaidYes
    /\ store0.secretkey = Empty
    /\ store.secretkey = HexKey
    /\ ret = Ret("nil", HexKey, FALSE, "nil")

\* the elements of s that are in keep, in the order of s
Kept(s, keep) == SelectSeq(s, LAMBDA v : v \in keep)

\* C20: for every slice and every keep, filterSlice returns exactly the
\* elements keep is true of, each once and in their original order, so that
\* its length is the number of the elements kept.
C20_FilterSliceKeepsExactly ==
    pc = "filtered" =>
        /\ fout = Kept(fin, fkeep)
        /\ Len(fout) = Cardinality({i \in Indices(fin) : fin[i] \in fkeep})
        /\ SubSeq(fslice, 1, Len(fout)) = fout
        /\ Len(fslice) = Len(fin)

C20_Witness ==
    /\ pc = "filtered"
    /\ fin = <<"a", "b", "a">>
    /\ fkeep = {"a"}
    /\ fout = <<"a", "a">>
    /\ fslice # fin

====
